---- MODULE Spec2Model ----
(***************************************************************************)
(* Model of the VibeWorker agent runner (backend/graph/agent.py) together  *)
(* with the plan approval registry (backend/plan_approval.py).             *)
(*                                                                         *)
(* One run of run_agent is modelled: Phase 1 (_stream_simple_agent) reads  *)
(* raw signals of the ReAct agent stream until it ends, raises, or a       *)
(* plan_create tool call produced a plan; the optional approval gate; and  *)
(* Phase 2 (_stream_plan_execution), the step loop with one isolated       *)
(* sub-execution per step and the replanner (_evaluate_replan) after it.   *)
(* The variable events is the ordered stream the caller observes.          *)
(***************************************************************************)
EXTENDS Integers, Sequences, FiniteSets, TLC

\* ---------------------------------------------------------------- bounds
MaxPlanLen == 2      \* longest plan plan_create hands over
MaxCeiling == 2      \* largest settings.plan_max_steps tried
MaxRevised == 2      \* longest revised_steps list the replanner returns
MaxSignals == 1      \* raw stream signals (astream_events items) per run
MaxEvalCalls == 3    \* direct calls of _evaluate_replan in SpecEval
MaxGateCalls == 4    \* direct calls of the approval registry in SpecGate
MaxRetention == 2    \* largest small retention ceiling tried in SpecCkpt
MaxAppends == 7      \* checkpoints appended per thread in SpecCkpt
MaxBuilds == 3       \* calls of build_graph through the cache
MaxRunAppends == 3   \* checkpoints a thread saves in SpecCache and SpecPrune
MaxExcess == 2       \* characters of raw text past a slice length
MaxStreamSignals == 4    \* signals read from the model streams
MaxCacheSize == 2    \* the largest max_size a MemoryCache is built with
MaxCacheOps == 4     \* calls of the MemoryCache
MaxCacheTicks == 1   \* seconds that pass on the MemoryCache's clock
MaxSessionOps == 3   \* SessionManager operations started

\* ------------------------------------------- constants of graph_builder.py
_CHECKPOINT_MAX_PER_THREAD == 20
_CHECKPOINT_CLEANUP_INTERVAL == 300
\* the slices of the event builders: input[:5000], output_text[:3000],
\* output_str[:2000]
LlmInputMax == 5000
LlmOutputMax == 3000
ToolOutputMax == 2000
\* nodes_cfg.get("executor", {}).get("max_steps", 8)
DefaultMaxSteps == 8
\* time.time() when the process starts: any value an interval past 0
StartTime == 1000

\* ------------------------------------------------------------- value sets
PlanIds == {"p1", "p2"}
ThePlan == "p1"                     \* plan_id of the plan this run detects
RunIds == {"r1"}                    \* run ids of model calls in a stream
SP == " "                           \* the whitespace character of titles
Threads == {"t1", "t2"}             \* thread ids of the conversations
NoGateCall == [n |-> 0, op |-> "none", plan_id |-> "", arg |-> FALSE,
               ret |-> FALSE, handle |-> 0]
NoCall == [scanned |-> FALSE, cleaned |-> 0]
Absent == 0 - 1                     \* a key the configuration does not hold
NoGraph == [nodes |-> {}, edges |-> {}, router |-> "none", max_steps |-> 0,
            config |-> <<>>]
NoRoute == [router |-> "none", plan_data |-> FALSE, step_index |-> 0,
            total_steps |-> 0, max_steps |-> 0, ret |-> ""]
NoCacheCall == [op |-> "none", config |-> <<>>, ret |-> 0, built |-> FALSE,
                raised |-> FALSE, fault |-> "none"]
NoEvent == [type |-> "none", content |-> 0, input |-> 0, output |-> 0]
NoneValue == [action |-> "None", response |-> "", revised_steps |-> <<>>]
NotInvoked == [action |-> "not_invoked", response |-> "", revised_steps |-> <<>>]

\* A raw signal of astream_events: its kind and the fields the handlers read.
Signals ==
    {[kind |-> "on_chat_model_stream", content |-> c, run_id |-> "r1", name |-> ""] :
        c \in {"", "t"}}
    \cup {[kind |-> k, content |-> "", run_id |-> r, name |-> ""] :
        k \in {"on_chat_model_start", "on_chat_model_end"}, r \in RunIds}
    \cup {[kind |-> k, content |-> "", run_id |-> "r1", name |-> "read_file"] :
        k \in {"on_tool_start", "on_tool_end"}}

\* ---------------------------------------------- cache/memory_cache.py
DefaultCacheSize == 100             \* MemoryCache(max_size=100, ...)
default_ttl == 3600                 \* MemoryCache(..., default_ttl=3600)
CacheKeys == {"k1", "k2", "k3"}
CacheValues == {"v1", "v2"}
Ttls == {0, default_ttl}            \* ttl of a set: given, or the default
None == "None"                      \* what a get returns on a miss
NoCacheOp == [n |-> 0, op |-> "none", key |-> "", ret |-> None,
              evicted |-> {}]

\* ------------------------------------------------ sessions_manager.py
Writers == {"w1", "w2"}             \* threads that call the SessionManager
Missing == [kind |-> "missing"]     \* the path does not exist
NoFile == [kind |-> "none"]         \* no temporary file
Partial == [kind |-> "partial"]     \* a temporary file not written to its end
Idle == [at |-> "idle", op |-> "none", data |-> Missing, msg |-> 0]
NoLog == [written |-> FALSE, deleted |-> FALSE, crashed |-> FALSE, ops |-> 0]
NoRead == [kind |-> "not_read"]

\* ------------------------------------------------------------------ state
VARIABLES
    pc,                     \* position of the runner coroutine
    events,                 \* the event stream observed by the caller
    steps,                  \* Phase 2 local: the step sequence of the plan
    step_index,             \* Phase 2 local: 0-based index of the next step
    past_steps,             \* Phase 2 local: titles of the executed steps
    debug_tracking,         \* run ids of model calls started and not ended
    plan_max_steps,         \* settings.plan_max_steps
    plan_revision_enabled,  \* settings.plan_revision_enabled
    plan_require_approval,  \* settings.plan_require_approval
    _plan_approval_events,  \* plan_id -> Event object (its number)
    _plan_approval_results, \* plan_id -> bool
    event_flags,            \* the asyncio.Event objects created, by number
    approval_event,         \* the runner's Event handle (0: none)
    origin,                 \* history: for each step, <<revision, position>>
    issued,                 \* history: every (id, revision, position) given
    revisions,              \* history: number of revisions applied
    last_llm,               \* history: outcome of the last replanner model call
    last_decision,          \* history: action _evaluate_replan returned last
    only_continue,          \* history: every decision so far continue or None
    llm_calls,              \* history: replanner model invocations
    evaluations,            \* history: calls of _evaluate_replan
    signals,                \* history: raw signals consumed (bounded)
    resolved,               \* history: <<plan_id, approved>> of each resolve
                            \*          that found a pending entry
    gate_ret,               \* the last direct call of the approval registry
    storage,                \* _checkpointer.storage: the checkpoint keys
    appended,               \* thread_id -> checkpoints appended so far
    now,                    \* time.time()
    _last_checkpoint_cleanup, \* time of the last scan (0: never)
    cleanup_ret,            \* the last call of cleanup_old_checkpoints
    checkpoint_max,         \* the ceiling the build is configured with
    compiled,               \* the last result of build_graph
    route_ret,              \* the last call of an executor routing function
    _graph_cache,           \* fingerprint -> compiled graph (its number)
    builds,                 \* history: calls of build_graph so far
    cache_ret,              \* the last call of the graph cache
    callers,                \* threads inside get_or_build_graph
    sse_event,              \* the last event built by an event builder
    _cache,                 \* MemoryCache._cache: the entries, oldest first
    max_size,               \* MemoryCache.max_size
    recency,                \* history: the keys in the order of their last use
    mc_ret,                 \* the last call of the MemoryCache
    os_name,                \* os.name of the build
    session_file,           \* the session's JSON file (Missing: no file)
    tmp_files,              \* writer -> its mkstemp file
    _lock,                  \* SessionManager._lock: its holder
    writers,                \* threads inside SessionManager operations
    saved,                  \* history: messages of completed save_message calls
    fs_read,                \* what the last unlocked reader found
    fs_log                  \* history: writes, deletions and a crash so far

vars == <<pc, events, steps, step_index, past_steps, debug_tracking,
          plan_max_steps, plan_revision_enabled, plan_require_approval,
          _plan_approval_events, _plan_approval_results, event_flags,
          approval_event, origin, issued, revisions, last_llm, last_decision,
          only_continue, llm_calls, evaluations, signals, resolved, gate_ret,
          storage, appended, now, _last_checkpoint_cleanup, cleanup_ret,
          checkpoint_max, compiled, route_ret, _graph_cache, builds,
          cache_ret, callers, sse_event, _cache, max_size, recency, mc_ret,
          os_name, session_file, tmp_files, _lock, writers, saved, fs_read,
          fs_log>>

settingsVars == <<plan_max_steps, plan_revision_enabled, plan_require_approval>>
approvalVars == <<_plan_approval_events, _plan_approval_results, event_flags,
                  approval_event, resolved>>
planVars == <<steps, step_index, past_steps, origin, issued, revisions>>
replanVars == <<last_llm, last_decision, only_continue, llm_calls, evaluations>>
ckptVars == <<storage, appended, now, _last_checkpoint_cleanup, cleanup_ret,
              checkpoint_max>>
memoryVars == <<_cache, max_size, recency, mc_ret>>
sessionVars == <<os_name, session_file, tmp_files, _lock, writers, saved,
                 fs_read, fs_log>>
\* the prompt cache's memory tier and the session store
serviceVars == <<memoryVars, sessionVars>>
\* what the agent runner never touches
componentVars == <<gate_ret, ckptVars, compiled, route_ret, _graph_cache,
                   builds, cache_ret, callers, sse_event, serviceVars>>
cacheVars == <<_graph_cache, builds, cache_ret, callers>>
engineVars == <<compiled, route_ret, cacheVars, sse_event>>
\* the state of one run and of the approval registry
runVars == <<pc, events, debug_tracking, planVars, settingsVars, approvalVars,
             replanVars, signals, serviceVars>>

\* ---------------------------------------------------------------- helpers
RECURSIVE lstrip(_)
lstrip(s) == IF s # <<>> /\ Head(s) = SP THEN lstrip(Tail(s)) ELSE s

RECURSIVE rstrip(_)
rstrip(s) ==
    IF s # <<>> /\ s[Len(s)] = SP THEN rstrip(SubSeq(s, 1, Len(s) - 1)) ELSE s

\* str.strip() on a title, a sequence of characters
strip(s) == rstrip(lstrip(s))

\* An event of the stream.  at is the 1-based position of the step whose
\* sub-execution yielded it (0: not yielded by a sub-execution).
Event(type, step_id, status, content, new_steps, at) ==
    [type |-> type, step_id |-> step_id, status |-> status,
     content |-> content, steps |-> new_steps, at |-> at]

Yield(type, content, at) == Event(type, 0, "", content, <<>>, at)

\* tools.plan_tool.send_plan_updated_event: a plan_updated event on the stream
send_plan_updated_event(ev, step_id, status) ==
    Append(ev, Event("plan_updated", step_id, status, "", <<>>, 0))

\* tools.plan_tool.send_plan_revised_event
send_plan_revised_event(ev, new_steps, reason) ==
    Append(ev, Event("plan_revised", 0, "", reason, new_steps, 0))

\* tools.plan_tool._send_plan_event with a plan_approval_request
send_plan_approval_request(ev, plan_steps) ==
    Append(ev, Event("plan_approval_request", 0, "", "", plan_steps, 0))

\* tools.plan_tool: the plan plan_create stored, as get_latest_plan returns it
InitialTitle(i) == IF i % 2 = 1 THEN <<"s">> ELSE <<"u">>

PlanCreate(n) ==
    [i \in 1..n |-> [id |-> i, title |-> InitialTitle(i), status |-> "pending"]]

\* -------------------------------------------------- plan_approval.py
\* faulty variant: the entry is read but not removed
DictPop_kept(d, k) == d

\* dict.pop(key, default) seen as the remaining dict
DictPop(d, k) == [x \in DOMAIN d \ {k} |-> d[x]]

DictSet(d, k, v) == [x \in DOMAIN d \cup {k} |-> IF x = k THEN v ELSE d[x]]

\* faulty variant: the Event is created already set
register_plan_approval_preset(plan_id) ==
    /\ event_flags' = Append(event_flags, TRUE)
    /\ _plan_approval_events' =
           DictSet(_plan_approval_events, plan_id, Len(event_flags) + 1)
    /\ approval_event' = Len(event_flags) + 1
    /\ UNCHANGED <<_plan_approval_results, resolved>>

\* register_plan_approval(plan_id): a fresh Event stored under plan_id
register_plan_approval(plan_id) ==
    /\ event_flags' = Append(event_flags, FALSE)
    /\ _plan_approval_events' =
           DictSet(_plan_approval_events, plan_id, Len(event_flags) + 1)
    /\ approval_event' = Len(event_flags) + 1
    /\ UNCHANGED <<_plan_approval_results, resolved>>

\* what resolve_plan_approval(plan_id, _) returns: False when the pop finds
\* no Event, True otherwise
resolve_plan_approval_returns(plan_id) ==
    plan_id \in DOMAIN _plan_approval_events

\* faulty variant: the decision is stored whether or not an entry is pending
resolve_plan_approval_unchecked(plan_id, approved) ==
    /\ _plan_approval_results' =
           DictSet(_plan_approval_results, plan_id, approved)
    /\ IF plan_id \notin DOMAIN _plan_approval_events
       THEN UNCHANGED <<_plan_approval_events, event_flags, resolved>>
       ELSE /\ _plan_approval_events' =
                   DictPop(_plan_approval_events, plan_id)
            /\ event_flags' =
                   [event_flags EXCEPT ![_plan_approval_events[plan_id]] = TRUE]
            /\ resolved' = resolved \cup {<<plan_id, approved>>}
    /\ UNCHANGED approval_event

\* faulty variant: the decision is stored but the Event is never set
resolve_plan_approval_unsignalled(plan_id, approved) ==
    IF plan_id \notin DOMAIN _plan_approval_events
    THEN UNCHANGED approvalVars
    ELSE /\ _plan_approval_events' = DictPop(_plan_approval_events, plan_id)
         /\ _plan_approval_results' =
                DictSet(_plan_approval_results, plan_id, approved)
         /\ resolved' = resolved \cup {<<plan_id, approved>>}
         /\ UNCHANGED <<event_flags, approval_event>>

\* resolve_plan_approval(plan_id, approved), called by the HTTP handler
resolve_plan_approval(plan_id, approved) ==
    IF plan_id \notin DOMAIN _plan_approval_events
    THEN UNCHANGED approvalVars
    ELSE /\ _plan_approval_events' = DictPop(_plan_approval_events, plan_id)
         /\ _plan_approval_results' =
                DictSet(_plan_approval_results, plan_id, approved)
         /\ event_flags' =
                [event_flags EXCEPT ![_plan_approval_events[plan_id]] = TRUE]
         /\ resolved' = resolved \cup {<<plan_id, approved>>}
         /\ UNCHANGED approval_event

\* faulty variant: the default of the pop is False
get_plan_approval_result_default_false(plan_id) ==
    IF plan_id \in DOMAIN _plan_approval_results
    THEN _plan_approval_results[plan_id]
    ELSE FALSE

\* faulty variant: the stored decision is ignored
get_plan_approval_result_ignored(plan_id) == TRUE

\* get_plan_approval_result(plan_id): _plan_approval_results.pop(plan_id, True)
get_plan_approval_result(plan_id) ==
    IF plan_id \in DOMAIN _plan_approval_results
    THEN _plan_approval_results[plan_id]
    ELSE TRUE

\* ------------------------------------------------ stream signal handlers
\* run_id[:12] of a run id: r1 and r2 agree on their first twelve characters
call_id(run_id) ==
    CASE run_id = "r1" -> "c1"
      [] run_id = "r2" -> "c1"
      [] OTHER -> "c3"

\* faulty variant: llm_end is yielded for every model end, tracked or not
SignalEvents_untracked(sig, tracking, at) ==
    CASE sig.kind = "on_chat_model_stream" ->
            IF sig.content # "" THEN <<Yield("token", sig.content, at)>> ELSE <<>>
      [] sig.kind = "on_chat_model_start" ->
            <<Yield("llm_start", call_id(sig.run_id), at)>>
      [] sig.kind = "on_chat_model_end" ->
            <<Yield("llm_end", call_id(sig.run_id), at)>>
      [] sig.kind = "on_tool_start" -> <<Yield("tool_start", sig.name, at)>>
      [] sig.kind = "on_tool_end" -> <<Yield("tool_end", sig.name, at)>>

\* The events one raw signal makes the runner yield (Phase 1 and Phase 2
\* handle the five kinds alike), at is the position of the running step.
SignalEvents(sig, tracking, at) ==
    CASE sig.kind = "on_chat_model_stream" ->
            IF sig.content # "" THEN <<Yield("token", sig.content, at)>> ELSE <<>>
      [] sig.kind = "on_chat_model_start" ->
            <<Yield("llm_start", call_id(sig.run_id), at)>>
      [] sig.kind = "on_chat_model_end" ->
            IF sig.run_id \in tracking
            THEN <<Yield("llm_end", call_id(sig.run_id), at)>>
            ELSE <<>>
      [] sig.kind = "on_tool_start" -> <<Yield("tool_start", sig.name, at)>>
      [] sig.kind = "on_tool_end" -> <<Yield("tool_end", sig.name, at)>>

\* debug_tracking after the signal: set at model start, popped at model end
SignalTracking(sig, tracking) ==
    CASE sig.kind = "on_chat_model_start" -> tracking \cup {sig.run_id}
      [] sig.kind = "on_chat_model_end" -> tracking \ {sig.run_id}
      [] OTHER -> tracking

\* ------------------------------------------------------------ replanner
\* What the structured model call of the replanner can come back with:
\* a ReplanDecision, or a failure (exception, timeout, malformed output).
RawTitle(i) ==
    CASE i % 3 = 1 -> <<SP, "a">>
      [] i % 3 = 2 -> <<"b", SP>>
      [] OTHER -> <<"a">>

RevisedSteps(k) == [i \in 1..k |-> RawTitle(i)]

LLMOutcomes ==
    {[action |-> a, response |-> "", revised_steps |-> <<>>] :
        a \in {"raise", "continue", "finish", "retry"}}
    \cup {[action |-> "finish", response |-> "r", revised_steps |-> <<>>]}
    \cup {[action |-> "revise", response |-> "", revised_steps |-> RevisedSteps(k)] :
        k \in 0..MaxRevised}

\* steps[current_index:]
RemainingSteps(all_steps, current_index) ==
    SubSeq(all_steps, current_index + 1, Len(all_steps))

\* faulty variant: the check for remaining steps is missing
_evaluate_replan_unchecked(enabled, all_steps, current_index, llm) ==
    IF ~enabled THEN [decision |-> NoneValue, invoked |-> FALSE]
    ELSE IF llm.action = "raise"
    THEN [decision |-> NoneValue, invoked |-> TRUE]
    ELSE [decision |-> llm, invoked |-> TRUE]

\* _evaluate_replan: what it returns, and whether it invoked the model.
\* llm is what the model call comes back with if it is made.
_evaluate_replan(enabled, all_steps, current_index, llm) ==
    IF ~enabled THEN [decision |-> NoneValue, invoked |-> FALSE]
    ELSE IF RemainingSteps(all_steps, current_index) = <<>>
    THEN [decision |-> NoneValue, invoked |-> FALSE]
    ELSE IF llm.action = "raise"
    THEN [decision |-> NoneValue, invoked |-> TRUE]
    ELSE [decision |-> llm, invoked |-> TRUE]

\* ---------------------------------------------------- Phase 2 helpers
\* the while condition of the step loop
LoopCond(idx, all_steps, max_steps) == idx < Len(all_steps) /\ idx < max_steps

\* faulty variant: a None from the replanner ends the plan instead of continuing
DecisionBranch_none_aborts(decision) ==
    IF decision.action \in {"None", "finish"} THEN "finish"
    ELSE IF decision.action = "revise" /\ decision.revised_steps # <<>> THEN "revise"
    ELSE "continue"

\* faulty variant: a revise is taken whether or not it lists any step
DecisionBranch_revise_empty(decision) ==
    IF decision.action = "None" THEN "continue"
    ELSE IF decision.action = "finish" THEN "finish"
    ELSE IF decision.action = "revise" THEN "revise"
    ELSE "continue"

\* the branch the loop takes on a decision: `if decision:`, then finish,
\* then revise with a non-empty list; anything else falls through
DecisionBranch(decision) ==
    IF decision.action = "None" THEN "continue"
    ELSE IF decision.action = "finish" THEN "finish"
    ELSE IF decision.action = "revise" /\ decision.revised_steps # <<>> THEN "revise"
    ELSE "continue"

\* faulty variant: the running event is held back instead of being sent first
MarkRunning_held(ev, step) == ev

\* the step is marked running before its sub-execution is built and read
MarkRunning(ev, step) == send_plan_updated_event(ev, step.id, "running")

\* the step is marked completed after its sub-execution's stream ended
MarkCompleted(ev, step) == send_plan_updated_event(ev, step.id, "completed")

\* new_steps of a revision
NewSteps(idx, revised_steps) ==
    [i \in 1..Len(revised_steps) |->
        [id |-> idx + (i - 1) + 1, title |-> strip(revised_steps[i]),
         status |-> "pending"]]

\* faulty variant: the whole sequence is replaced, completed steps included
ReplaceRemaining_all(all_steps, idx, new_steps) == new_steps

\* steps[:step_index] + new_steps
ReplaceRemaining(all_steps, idx, new_steps) == SubSeq(all_steps, 1, idx) \o new_steps

\* the finish branch: plan_updated(completed) for steps[step_index:]
RECURSIVE MarkRemainingCompleted(_, _, _)
MarkRemainingCompleted(ev, all_steps, idx) ==
    IF idx >= Len(all_steps) THEN ev
    ELSE MarkRemainingCompleted(
             send_plan_updated_event(ev, all_steps[idx + 1].id, "completed"),
             all_steps, idx + 1)

\* faulty variant: the fragment is yielded whether or not it is empty
FinishToken_always(ev, response) ==
    Append(ev, Yield("token", "\n\n" \o response, 0))

\* the optional response fragment of the finish branch
FinishToken(ev, response) ==
    IF response # "" THEN Append(ev, Yield("token", "\n\n" \o response, 0)) ELSE ev

\* ------------------------------------------------------------------ Init
\* graph_builder.py at import: an empty MemorySaver, no scan made yet
InitStore(ceiling) ==
    /\ storage = {}
    /\ appended = [t \in Threads |-> 0]
    /\ now = StartTime
    /\ _last_checkpoint_cleanup = 0
    /\ cleanup_ret = NoCall
    /\ checkpoint_max = ceiling

InitRun ==
    /\ pc = "phase1"
    /\ events = <<>>
    /\ steps = <<>>
    /\ step_index = 0
    /\ past_steps = <<>>
    /\ debug_tracking = {}
    /\ plan_max_steps \in 1..MaxCeiling
    /\ plan_revision_enabled \in BOOLEAN
    /\ plan_require_approval \in BOOLEAN
    /\ _plan_approval_events = <<>>
    /\ _plan_approval_results = <<>>
    /\ event_flags = <<>>
    /\ approval_event = 0
    /\ origin = <<>>
    /\ issued = {}
    /\ revisions = 0
    /\ last_llm = NotInvoked
    /\ last_decision = "None"
    /\ only_continue = TRUE
    /\ llm_calls = 0
    /\ evaluations = 0
    /\ signals = 0
    /\ resolved = {}
    /\ gate_ret = NoGateCall

\* graph_builder.py at import: nothing built, an empty cache
InitEngine ==
    /\ compiled = NoGraph
    /\ route_ret = NoRoute
    /\ _graph_cache = <<>>
    /\ builds = 0
    /\ cache_ret = NoCacheCall
    /\ callers = <<>>
    /\ sse_event = NoEvent

\* memory_cache.py __init__: an empty OrderedDict
InitMemoryCache(size) ==
    /\ _cache = <<>>
    /\ max_size = size
    /\ recency = <<>>
    /\ mc_ret = NoCacheOp

\* sessions_manager.py at import: no session file, the lock free
InitSessions(os) ==
    /\ os_name = os
    /\ session_file = Missing
    /\ tmp_files = [w \in Writers |-> NoFile]
    /\ _lock = "free"
    /\ writers = [w \in Writers |-> Idle]
    /\ saved = {}
    /\ fs_read = NoRead
    /\ fs_log = NoLog

InitServices == InitMemoryCache(DefaultCacheSize) /\ InitSessions("posix")

Init ==
    /\ InitRun
    /\ InitStore(_CHECKPOINT_MAX_PER_THREAD)
    /\ InitEngine
    /\ InitServices

\* --------------------------------------------- Phase 1: _stream_simple_agent
\* One raw signal of the main agent's stream that does not end Phase 1
\* (a tool_end of a tool other than plan_create included).
Phase1Signal ==
    /\ pc = "phase1"
    /\ signals < MaxSignals
    /\ \E sig \in Signals :
          /\ events' = events \o SignalEvents(sig, debug_tracking, 0)
          /\ debug_tracking' = SignalTracking(sig, debug_tracking)
    /\ signals' = signals + 1
    /\ UNCHANGED <<pc, planVars, settingsVars, componentVars,
                   approvalVars, replanVars>>

\* on_tool_end of plan_create while get_latest_plan() has no plan: the
\* tool_end event is yielded and Phase 1 keeps streaming.
Phase1PlanCreateNoPlan ==
    /\ pc = "phase1"
    /\ signals < MaxSignals
    /\ events' = Append(events, Yield("tool_end", "plan_create", 0))
    /\ signals' = signals + 1
    /\ UNCHANGED <<pc, debug_tracking, planVars, settingsVars, componentVars,
                   approvalVars,
                   replanVars>>

\* on_tool_end of plan_create with a plan (the signal that ends Phase 1, not
\* counted against MaxSignals): tool_end is yielded, the stream
\* loop is left, and either the approval request is sent and the approval
\* registered (the runner then waits), or Phase 2 is entered.
Phase1PlanDetected ==
    /\ pc = "phase1"
    /\ \E n \in 1..MaxPlanLen :
          /\ steps' = PlanCreate(n)
          /\ origin' = [i \in 1..n |-> <<0, i>>]
          /\ issued' = {<<i, 0, i>> : i \in 1..n}
          /\ IF plan_require_approval
             THEN /\ events' = send_plan_approval_request(
                                   Append(events, Yield("tool_end", "plan_create", 0)),
                                   PlanCreate(n))
                  /\ register_plan_approval(ThePlan)
                  /\ pc' = "awaiting"
             ELSE /\ events' = Append(events, Yield("tool_end", "plan_create", 0))
                  /\ UNCHANGED approvalVars
                  /\ pc' = "loop"
    /\ UNCHANGED <<step_index, past_steps, revisions, debug_tracking,
                   settingsVars, componentVars, replanVars, signals>>

\* The stream of the main agent ends without a plan: done.
Phase1End ==
    /\ pc = "phase1"
    /\ events' = Append(events, Yield("done", "", 0))
    /\ pc' = "finished"
    /\ UNCHANGED <<debug_tracking, planVars, settingsVars, componentVars,
                   approvalVars,
                   replanVars, signals>>

\* The stream of the main agent raises: the exception leaves the generator.
Phase1Raise ==
    /\ pc = "phase1"
    /\ pc' = "raised"
    /\ UNCHANGED <<events, debug_tracking, planVars, settingsVars, componentVars,
                   approvalVars,
                   replanVars, signals>>

\* ------------------------------------------------------------ approval gate
\* The administrative surface: resolve_approval(plan_id, approved).
ResolveApproval ==
    /\ \E p \in PlanIds, b \in BOOLEAN : resolve_plan_approval(p, b)
    /\ UNCHANGED <<pc, events, debug_tracking, planVars, settingsVars, componentVars,
                   replanVars, signals>>

\* approval_event.wait() returns; the result is consumed and acted on.
AfterApproval ==
    /\ pc = "awaiting"
    /\ event_flags[approval_event]
    /\ _plan_approval_results' = DictPop(_plan_approval_results, ThePlan)
    /\ IF get_plan_approval_result(ThePlan)
       THEN /\ pc' = "loop"
            /\ UNCHANGED events
       ELSE /\ events' = Append(Append(events, Yield("token", "rejected", 0)),
                                Yield("done", "", 0))
            /\ pc' = "finished"
    /\ UNCHANGED <<_plan_approval_events, event_flags, approval_event,
                   resolved, debug_tracking, planVars, settingsVars,
                   componentVars, replanVars, signals>>

\* ------------------------------------------- Phase 2: _stream_plan_execution
\* Top of the while loop, condition true: the step is marked running and
\* its sub-execution is set up.
StepStart ==
    /\ pc = "loop"
    /\ LoopCond(step_index, steps, plan_max_steps)
    /\ events' = MarkRunning(events, steps[step_index + 1])
    /\ debug_tracking' = {}
    /\ pc' = "sub"
    /\ UNCHANGED <<planVars, settingsVars, componentVars,
                   approvalVars, replanVars, signals>>

\* One raw signal of the step's sub-agent stream.
SubSignal ==
    /\ pc = "sub"
    /\ signals < MaxSignals
    /\ \E sig \in Signals :
          /\ events' = events \o SignalEvents(sig, debug_tracking, step_index + 1)
          /\ debug_tracking' = SignalTracking(sig, debug_tracking)
    /\ signals' = signals + 1
    /\ UNCHANGED <<pc, planVars, settingsVars, componentVars,
                   approvalVars, replanVars>>

\* The sub-agent stream raises: nothing in the loop catches it.
SubRaise ==
    /\ pc = "sub"
    /\ pc' = "raised"
    /\ UNCHANGED <<events, debug_tracking, planVars, settingsVars, componentVars,
                   approvalVars,
                   replanVars, signals>>

\* The sub-agent stream ends: the step is marked completed, its result
\* recorded (past_steps keeps the title, the response text is left out),
\* the index advanced; the replanner is consulted if steps remain.
SubEnd ==
    /\ pc = "sub"
    /\ events' = MarkCompleted(events, steps[step_index + 1])
    /\ past_steps' = Append(past_steps, steps[step_index + 1].title)
    /\ step_index' = step_index + 1
    /\ pc' = IF Len(steps) - (step_index + 1) > 0 THEN "replan" ELSE "loop"
    /\ UNCHANGED <<steps, origin, issued, revisions, debug_tracking,
                   settingsVars, componentVars,
                   approvalVars, replanVars, signals>>

\* _evaluate_replan returns and its decision is acted on.
Replan ==
    /\ pc = "replan"
    /\ \E llm \in LLMOutcomes :
        LET result == _evaluate_replan(plan_revision_enabled, steps, step_index, llm)
            decision == result.decision
            invoked == result.invoked
            branch == DecisionBranch(decision)
            new_steps == NewSteps(step_index, decision.revised_steps)
        IN  /\ last_llm' = IF invoked THEN llm ELSE NotInvoked
            /\ last_decision' = decision.action
            /\ only_continue' =
                   (only_continue /\ decision.action \in {"continue", "None"})
            /\ evaluations' = evaluations + 1
            /\ llm_calls' = llm_calls + (IF invoked THEN 1 ELSE 0)
            /\ IF branch = "finish"
               THEN /\ events' = FinishToken(
                                     MarkRemainingCompleted(events, steps, step_index),
                                     decision.response)
                    /\ pc' = "break"
                    /\ UNCHANGED <<steps, origin, issued, revisions>>
               ELSE IF branch = "revise"
               THEN /\ events' = send_plan_revised_event(events, new_steps, "")
                    /\ steps' = ReplaceRemaining(steps, step_index, new_steps)
                    /\ revisions' = revisions + 1
                    /\ origin' = SubSeq(origin, 1, step_index) \o
                           [i \in 1..Len(new_steps) |->
                               <<revisions + 1, step_index + i>>]
                    /\ issued' = issued \cup
                           {<<new_steps[i].id, revisions + 1, step_index + i>> :
                               i \in 1..Len(new_steps)}
                    /\ pc' = "loop"
               ELSE /\ pc' = "loop"
                    /\ UNCHANGED <<events, steps, origin, issued, revisions>>
    /\ UNCHANGED <<step_index, past_steps, debug_tracking, settingsVars, componentVars,
                   approvalVars, signals>>

\* The loop is left (condition false, or break): done.
LoopExit ==
    /\ \/ pc = "loop" /\ ~LoopCond(step_index, steps, plan_max_steps)
       \/ pc = "break"
    /\ events' = Append(events, Yield("done", "", 0))
    /\ pc' = "finished"
    /\ UNCHANGED <<debug_tracking, planVars, settingsVars, componentVars,
                   approvalVars,
                   replanVars, signals>>

Next ==
    \/ Phase1Signal
    \/ Phase1PlanCreateNoPlan
    \/ Phase1PlanDetected
    \/ Phase1End
    \/ Phase1Raise
    \/ ResolveApproval
    \/ AfterApproval
    \/ StepStart
    \/ SubSignal
    \/ SubRaise
    \/ SubEnd
    \/ Replan
    \/ LoopExit

Spec == Init /\ [][Next]_vars

\* ------------------------------------------ _evaluate_replan called directly
\* The replanner taken alone: its inputs (the configuration switch, the
\* step list, the current index, what the model would answer) are drawn
\* afresh at each call, the case of no remaining steps included.
InitEval ==
    /\ Init
    /\ plan_max_steps = 1
    /\ plan_require_approval = FALSE

EvaluateReplanCall ==
    /\ evaluations < MaxEvalCalls
    /\ \E enabled \in BOOLEAN, n \in 0..MaxPlanLen, llm \in LLMOutcomes :
        \E idx \in 0..n :
            LET result == _evaluate_replan(enabled, PlanCreate(n), idx, llm)
            IN  /\ plan_revision_enabled' = enabled
                /\ steps' = PlanCreate(n)
                /\ step_index' = idx
                /\ last_llm' = IF result.invoked THEN llm ELSE NotInvoked
                /\ last_decision' = result.decision.action
                /\ llm_calls' = llm_calls + (IF result.invoked THEN 1 ELSE 0)
                /\ evaluations' = evaluations + 1
    /\ pc' = "eval"
    /\ UNCHANGED <<events, past_steps, debug_tracking, plan_max_steps,
                   plan_require_approval, approvalVars, origin, issued,
                   revisions, only_continue, signals, componentVars>>

NextEval == EvaluateReplanCall

SpecEval == InitEval /\ [][NextEval]_vars

\* --------------------------------------- the approval registry called directly
\* register / resolve / get-result called in any order with any plan_id, as
\* plan_approval.py allows; gate_ret records the call and what it returned.
InitGate ==
    /\ Init
    /\ plan_max_steps = 1
    /\ plan_revision_enabled = FALSE
    /\ plan_require_approval = FALSE

GateCall(op, plan_id, arg, ret, handle) ==
    [n |-> gate_ret.n + 1, op |-> op, plan_id |-> plan_id, arg |-> arg,
     ret |-> ret, handle |-> handle]

GateRegister ==
    /\ gate_ret.n < MaxGateCalls
    /\ \E p \in PlanIds :
          /\ register_plan_approval(p)
          /\ gate_ret' = GateCall("register", p, FALSE, TRUE,
                                  Len(event_flags) + 1)
    /\ UNCHANGED <<pc, events, debug_tracking, planVars, settingsVars,
                   replanVars, signals, ckptVars, engineVars, serviceVars>>

GateResolve ==
    /\ gate_ret.n < MaxGateCalls
    /\ \E p \in PlanIds, b \in BOOLEAN :
          /\ resolve_plan_approval(p, b)
          /\ gate_ret' = GateCall("resolve", p, b,
                                  resolve_plan_approval_returns(p), 0)
    /\ UNCHANGED <<pc, events, debug_tracking, planVars, settingsVars,
                   replanVars, signals, ckptVars, engineVars, serviceVars>>

GateConsume ==
    /\ gate_ret.n < MaxGateCalls
    /\ \E p \in PlanIds :
          /\ _plan_approval_results' = DictPop(_plan_approval_results, p)
          /\ gate_ret' = GateCall("consume", p, FALSE,
                                  get_plan_approval_result(p), 0)
    /\ UNCHANGED <<_plan_approval_events, event_flags, approval_event,
                   resolved, pc, events, debug_tracking, planVars,
                   settingsVars, replanVars, signals, ckptVars, engineVars, serviceVars>>

NextGate ==
    \/ GateRegister
    \/ GateResolve
    \/ GateConsume

SpecGate == InitGate /\ [][NextGate]_vars

\* ----------------------------------- checkpoint store: graph_builder.py 44-107
\* A key of _checkpointer.storage is <<thread_id, checkpoint_ns,
\* checkpoint_id>>, as cleanup_old_checkpoints reads it. Checkpoint ids are
\* the per-thread sequence numbers: the saver issues ids that sort in the
\* order of creation.
Key(thread_id, checkpoint_id) == <<thread_id, "", checkpoint_id>>

\* by_thread[thread_id]: the keys whose first component is thread_id
by_thread(store, thread_id) == {k \in store : k[1] = thread_id}

\* now - _last_checkpoint_cleanup < _CHECKPOINT_CLEANUP_INTERVAL
\* faulty variant: no rate limit
RateLimited_never(t, last) == FALSE

RateLimited(t, last) == t - last < _CHECKPOINT_CLEANUP_INTERVAL

\* faulty variant: the oldest max keys are the ones kept
keys_to_remove_ascending(keys, max) ==
    IF Cardinality(keys) <= max
    THEN {}
    ELSE {k \in keys : Cardinality({j \in keys : j[3] < k[3]}) >= max}

\* faulty variant: the slice starts one key too late
keys_to_remove_off_by_one(keys, max) ==
    IF Cardinality(keys) <= max
    THEN {}
    ELSE {k \in keys : Cardinality({j \in keys : j[3] > k[3]}) >= max + 1}

\* sorted(keys, key=k[2], reverse=True)[max:] for a thread holding more than
\* max keys: the keys that have at least max newer keys before them
keys_to_remove(keys, max) ==
    IF Cardinality(keys) <= max
    THEN {}
    ELSE {k \in keys : Cardinality({j \in keys : j[3] > k[3]}) >= max}

\* faulty variant: the ceiling is applied to the store as a whole
Removed_global(store, max) == keys_to_remove(store, max)

\* every key the scan deletes
Removed(store, max) ==
    UNION {keys_to_remove(by_thread(store, t), max) : t \in {k[1] : k \in store}}

\* cleanup_old_checkpoints(): the rate limit, then the scan
cleanup_old_checkpoints ==
    IF RateLimited(now, _last_checkpoint_cleanup)
    THEN /\ cleanup_ret' = [scanned |-> FALSE, cleaned |-> 0]
         /\ UNCHANGED <<storage, _last_checkpoint_cleanup>>
    ELSE /\ _last_checkpoint_cleanup' = now
         /\ storage' = storage \ Removed(storage, checkpoint_max)
         /\ cleanup_ret' =
                [scanned |-> TRUE,
                 cleaned |-> Cardinality(Removed(storage, checkpoint_max))]

\* the ceilings tried: the small ones and the one the module ships with
Ceilings == (0..MaxRetention) \cup {_CHECKPOINT_MAX_PER_THREAD}

\* the clock readings tried: around one interval and at two intervals
ClockTimes ==
    {StartTime + d : d \in {0, 1, _CHECKPOINT_CLEANUP_INTERVAL - 1,
                            _CHECKPOINT_CLEANUP_INTERVAL,
                            2 * _CHECKPOINT_CLEANUP_INTERVAL}}

InitCkpt ==
    /\ InitRun
    /\ plan_max_steps = 1
    /\ plan_revision_enabled = FALSE
    /\ plan_require_approval = FALSE
    /\ \E ceiling \in Ceilings : InitStore(ceiling)
    /\ InitEngine
    /\ InitServices

\* a graph run with checkpointer=_checkpointer saves one checkpoint
AppendCheckpoint ==
    /\ \E t \in Threads :
          /\ appended[t] < MaxAppends
          /\ storage' = storage \cup {Key(t, appended[t] + 1)}
          /\ appended' = [appended EXCEPT ![t] = appended[t] + 1]
    /\ UNCHANGED <<now, _last_checkpoint_cleanup, cleanup_ret, checkpoint_max>>
    /\ UNCHANGED <<pc, events, debug_tracking, planVars, settingsVars,
                   approvalVars, replanVars, signals, gate_ret,
                   engineVars, serviceVars>>

\* time passes
Tick ==
    /\ \E t \in ClockTimes : t > now /\ now' = t
    /\ UNCHANGED <<storage, appended, _last_checkpoint_cleanup, cleanup_ret,
                   checkpoint_max>>
    /\ UNCHANGED <<pc, events, debug_tracking, planVars, settingsVars,
                   approvalVars, replanVars, signals, gate_ret,
                   engineVars, serviceVars>>

\* cleanup_old_checkpoints() is called, on its own or as the first
\* statement of get_or_build_graph
CleanupOldCheckpoints ==
    /\ cleanup_old_checkpoints
    /\ UNCHANGED <<appended, now, checkpoint_max>>
    /\ UNCHANGED <<pc, events, debug_tracking, planVars, settingsVars,
                   approvalVars, replanVars, signals, gate_ret,
                   engineVars, serviceVars>>

NextCkpt ==
    \/ AppendCheckpoint
    \/ Tick
    \/ CleanupOldCheckpoints

SpecCkpt == InitCkpt /\ [][NextCkpt]_vars

\* ------------------------------------- graph assembly: graph_builder.py 110-248
\* A graph_config is the dict as it is read: a sequence of <<key, value>>
\* pairs in insertion order. The key of a node stands for
\* graph.nodes.<node>.enabled (1: true, 0: false), "executor" for
\* graph.nodes.executor.max_steps; a key that is absent takes the default
\* of the .get() that reads it.
START == "__start__"
END == "__end__"
ConfigKeys == <<"approval", "executor", "planner", "replanner", "summarizer">>

HasKey(graph_config, key) ==
    \E i \in DOMAIN graph_config : graph_config[i][1] = key

\* dict.get(key, default)
Get(graph_config, key, default) ==
    IF HasKey(graph_config, key)
    THEN graph_config[CHOOSE i \in DOMAIN graph_config :
                          graph_config[i][1] = key][2]
    ELSE default

\* lines 122-125: the four toggles with their defaults
planner_enabled(graph_config) == Get(graph_config, "planner", 1) = 1
approval_enabled(graph_config) == Get(graph_config, "approval", 0) = 1
replanner_enabled(graph_config) == Get(graph_config, "replanner", 1) = 1
summarizer_enabled(graph_config) == Get(graph_config, "summarizer", 1) = 1

\* faulty variant: the approval node is added whatever the planner toggle
AddNodes_approval_outside(planner, approval, replanner, summarizer) ==
    {"agent"}
    \cup (IF approval THEN {"approval"} ELSE {})
    \cup (IF planner
          THEN {"plan_gate", "executor_pre", "executor"}
               \cup (IF replanner THEN {"replanner"} ELSE {})
               \cup (IF summarizer THEN {"summarizer"} ELSE {})
          ELSE {})

\* lines 129-145: graph.add_node
AddNodes(planner, approval, replanner, summarizer) ==
    {"agent"}
    \cup (IF planner
          THEN {"plan_gate", "executor_pre", "executor"}
               \cup (IF approval THEN {"approval"} ELSE {})
               \cup (IF replanner THEN {"replanner"} ELSE {})
               \cup (IF summarizer THEN {"summarizer"} ELSE {})
          ELSE {})

\* faulty variant: a rejected approval goes back to plan_gate
PlanGateEdges_to_plan_gate(approval) ==
    IF approval
    THEN {<<"plan_gate", "approval">>, <<"plan_gate", "executor_pre">>,
          <<"approval", "executor_pre">>, <<"approval", "plan_gate">>}
    ELSE {<<"plan_gate", "executor_pre">>}

\* lines 162-178: plan_gate -> approval | executor_pre, approval -> ...
PlanGateEdges(approval) ==
    IF approval
    THEN {<<"plan_gate", "approval">>, <<"plan_gate", "executor_pre">>,
          <<"approval", "executor_pre">>, <<"approval", "agent">>}
    ELSE {<<"plan_gate", "executor_pre">>}

\* faulty variant: the summarizer is left without its edge back to agent
ExecutorEdges_summarizer_dangling(replanner, summarizer) ==
    CASE replanner /\ summarizer ->
            {<<"executor", "replanner">>, <<"replanner", "executor_pre">>,
             <<"replanner", "summarizer">>}
      [] replanner /\ ~summarizer ->
            {<<"executor", "replanner">>, <<"replanner", "executor_pre">>,
             <<"replanner", END>>}
      [] ~replanner /\ summarizer ->
            {<<"executor", "executor_pre">>, <<"executor", "summarizer">>}
      [] OTHER ->
            {<<"executor", "executor_pre">>, <<"executor", END>>}

\* lines 180-234: the routing after executor
ExecutorEdges(replanner, summarizer) ==
    CASE replanner /\ summarizer ->
            {<<"executor", "replanner">>, <<"replanner", "executor_pre">>,
             <<"replanner", "summarizer">>, <<"summarizer", "agent">>}
      [] replanner /\ ~summarizer ->
            {<<"executor", "replanner">>, <<"replanner", "executor_pre">>,
             <<"replanner", END>>}
      [] ~replanner /\ summarizer ->
            {<<"executor", "executor_pre">>, <<"executor", "summarizer">>,
             <<"summarizer", "agent">>}
      [] OTHER ->
            {<<"executor", "executor_pre">>, <<"executor", END>>}

\* lines 147-237: set_entry_point and the edges
AddEdges(planner, approval, replanner, summarizer) ==
    {<<START, "agent">>}
    \cup (IF planner
          THEN {<<"agent", "plan_gate">>, <<"agent", END>>,
                <<"executor_pre", "executor">>}
               \cup PlanGateEdges(approval)
               \cup ExecutorEdges(replanner, summarizer)
          ELSE {<<"agent", END>>})

\* the conditional-edge function attached to executor, if any
Router(planner, replanner, summarizer) ==
    IF planner /\ ~replanner
    THEN IF summarizer
         THEN "_route_executor_no_replanner"
         ELSE "_route_executor_minimal"
    ELSE "none"

\* build_graph(graph_config): no path of the function raises or returns
\* anything but the compiled graph
build_graph(graph_config) ==
    LET p == planner_enabled(graph_config)
        a == approval_enabled(graph_config)
        r == replanner_enabled(graph_config)
        u == summarizer_enabled(graph_config)
    IN  [nodes |-> AddNodes(p, a, r, u),
         edges |-> AddEdges(p, a, r, u),
         router |-> Router(p, r, u),
         max_steps |-> Get(graph_config, "executor", DefaultMaxSteps),
         config |-> graph_config]

\* lines 201-211: _route_executor_no_replanner, plan_data FALSE standing for
\* a state without plan_data
_route_executor_no_replanner(plan_data, step_index_, total_steps, max_steps) ==
    IF ~plan_data
    THEN "summarizer"
    ELSE IF step_index_ >= total_steps \/ step_index_ >= max_steps
         THEN "summarizer"
         ELSE "executor_pre"

\* faulty variant: the step ceiling is not looked at
_route_executor_minimal_unbounded(plan_data, step_index_, total_steps, max_steps) ==
    IF ~plan_data
    THEN END
    ELSE IF step_index_ >= total_steps THEN END ELSE "executor_pre"

\* lines 219-229: _route_executor_minimal
_route_executor_minimal(plan_data, step_index_, total_steps, max_steps) ==
    IF ~plan_data
    THEN END
    ELSE IF step_index_ >= total_steps \/ step_index_ >= max_steps
         THEN END
         ELSE "executor_pre"

\* the configurations tried: every toggle absent, on or off, max_steps
\* absent or 1..MaxCeiling, keys in the given order
RECURSIVE ConfigFrom(_, _, _)
ConfigFrom(values, order, i) ==
    IF i > Len(order)
    THEN <<>>
    ELSE IF values[order[i]] = Absent
         THEN ConfigFrom(values, order, i + 1)
         ELSE <<<<order[i], values[order[i]]>>>>
              \o ConfigFrom(values, order, i + 1)

ConfigValues ==
    {v \in [{"approval", "executor", "planner", "replanner", "summarizer"}
               -> {Absent} \cup (0..MaxCeiling)] :
        /\ v["executor"] # 0
        /\ \A k \in {"approval", "planner", "replanner", "summarizer"} :
              v[k] \in {Absent, 0, 1}}

GraphConfigs == {ConfigFrom(v, ConfigKeys, 1) : v \in ConfigValues}

\* build_graph called directly with any configuration
BuildGraph ==
    /\ \E graph_config \in GraphConfigs :
          compiled' = build_graph(graph_config)
    /\ route_ret' = NoRoute
    /\ UNCHANGED <<cacheVars, sse_event, runVars, gate_ret, ckptVars>>

\* the compiled graph routes after executor on some state
RouteAfterExecutor ==
    /\ compiled.router # "none"
    /\ \E plan_data \in BOOLEAN, idx \in 0..(MaxPlanLen + 1),
          total \in 0..MaxPlanLen :
          route_ret' =
             [router |-> compiled.router, plan_data |-> plan_data,
              step_index |-> idx, total_steps |-> total,
              max_steps |-> compiled.max_steps,
              ret |-> IF compiled.router = "_route_executor_no_replanner"
                      THEN _route_executor_no_replanner(
                               plan_data, idx, total, compiled.max_steps)
                      ELSE _route_executor_minimal(
                               plan_data, idx, total, compiled.max_steps)]
    /\ UNCHANGED <<compiled, cacheVars, sse_event, runVars, gate_ret, ckptVars>>

NextEngine ==
    \/ BuildGraph
    \/ RouteAfterExecutor

InitEngineSpec ==
    /\ Init
    /\ plan_max_steps = 1
    /\ plan_revision_enabled = FALSE
    /\ plan_require_approval = FALSE

SpecEngine == InitEngineSpec /\ [][NextEngine]_vars

\* ---------------------------------------- graph cache: graph_builder.py 251-273
\* json.dumps(graph_config, sort_keys=True): the pairs in the order of
\* their keys, whatever the insertion order was
RECURSIVE json_dumps_sorted(_, _)
json_dumps_sorted(graph_config, i) ==
    IF i > Len(ConfigKeys)
    THEN <<>>
    ELSE IF HasKey(graph_config, ConfigKeys[i])
         THEN <<<<ConfigKeys[i], Get(graph_config, ConfigKeys[i], Absent)>>>>
              \o json_dumps_sorted(graph_config, i + 1)
         ELSE json_dumps_sorted(graph_config, i + 1)

\* faulty variant: the serialization keeps the insertion order
_config_fingerprint_unsorted(graph_config) == graph_config

\* _config_fingerprint: the SHA-256 prefix of the sorted serialization,
\* taken as one-to-one on the serializations tried
_config_fingerprint(graph_config) == json_dumps_sorted(graph_config, 1)

\* the faults a scan can meet: a key already deleted by another party when
\* del storage[key] runs (KeyError), or any other exception inside the try
ScanFaults == {"none", "key_error", "exception"}

\* faulty variant: only KeyError is caught
Propagates_uncaught(fault) == fault = "exception"

\* does the fault leave cleanup_old_checkpoints as an exception? The inner
\* except KeyError and the outer except Exception catch both kinds.
Propagates(fault) == FALSE

\* cleanup_old_checkpoints() when the scan meets a fault on the keys of
\* part: with key_error the keys of part were deleted by the other party
\* and are not counted; with exception the scan stops after deleting part
cleanup_old_checkpoints_faulted(fault, part) ==
    IF fault = "none" \/ RateLimited(now, _last_checkpoint_cleanup)
    THEN cleanup_old_checkpoints
    ELSE /\ _last_checkpoint_cleanup' = now
         /\ IF fault = "key_error"
            THEN /\ storage' = storage \ Removed(storage, checkpoint_max)
                 /\ cleanup_ret' =
                       [scanned |-> TRUE,
                        cleaned |-> Cardinality(
                            Removed(storage, checkpoint_max) \ part)]
            ELSE /\ storage' = storage \ part
                 /\ cleanup_ret' =
                       [scanned |-> TRUE, cleaned |-> Cardinality(part)]

Reverse(seq) == [i \in 1..Len(seq) |-> seq[Len(seq) + 1 - i]]

\* the configurations handed to the cache: planner on or off, approval
\* on or off, the two keys in either order
CacheConfigs ==
    {ConfigFrom(v, order, 1) :
        v \in {w \in ConfigValues :
                  /\ w["planner"] \in {0, 1}
                  /\ w["approval"] \in {0, 1}
                  /\ w["executor"] = Absent
                  /\ w["replanner"] = Absent
                  /\ w["summarizer"] = Absent},
        order \in {ConfigKeys, Reverse(ConfigKeys)}}

\* get_or_build_graph(graph_config), the scan meeting the given fault
get_or_build_graph(graph_config, fault, part) ==
    LET fp == _config_fingerprint(graph_config)
        miss == fp \notin DOMAIN _graph_cache
    IN  /\ cleanup_old_checkpoints_faulted(fault, part)
        /\ IF Propagates(fault) /\ ~RateLimited(now, _last_checkpoint_cleanup)
           THEN /\ cache_ret' = [op |-> "get_or_build",
                                 config |-> graph_config, ret |-> 0,
                                 built |-> FALSE, raised |-> TRUE,
                                 fault |-> fault]
                /\ UNCHANGED <<_graph_cache, builds, compiled>>
           ELSE /\ miss => builds < MaxBuilds
                /\ builds' = IF miss THEN builds + 1 ELSE builds
                /\ compiled' = IF miss THEN build_graph(graph_config)
                                       ELSE compiled
                /\ _graph_cache' =
                       IF miss THEN DictSet(_graph_cache, fp, builds + 1)
                               ELSE _graph_cache
                /\ cache_ret' = [op |-> "get_or_build",
                                 config |-> graph_config,
                                 ret |-> IF miss THEN builds + 1
                                                 ELSE _graph_cache[fp],
                                 built |-> miss, raised |-> FALSE,
                                 fault |-> IF RateLimited(
                                                now, _last_checkpoint_cleanup)
                                           THEN "none" ELSE fault]

\* the cache called with any of the configurations, no fault in the scan
GetOrBuildGraph ==
    /\ \E graph_config \in CacheConfigs :
          get_or_build_graph(graph_config, "none", {})
    /\ UNCHANGED <<appended, now, checkpoint_max, route_ret, callers,
                   sse_event, runVars, gate_ret>>

\* faulty variant: the cache is not cleared
InvalidateGraphCache_kept ==
    /\ cache_ret' = [NoCacheCall EXCEPT !.op = "invalidate"]
    /\ UNCHANGED <<_graph_cache, builds, callers, compiled, route_ret,
                   sse_event, runVars, gate_ret, ckptVars>>

\* invalidate_graph_cache(): _graph_cache.clear()
InvalidateGraphCache ==
    /\ _graph_cache' = <<>>
    /\ cache_ret' = [NoCacheCall EXCEPT !.op = "invalidate"]
    /\ UNCHANGED <<builds, callers, compiled, route_ret, sse_event, runVars,
                   gate_ret, ckptVars>>

\* a thread runs a compiled graph it got from the cache: the checkpointer
\* saves one more checkpoint for it
RunGraph ==
    /\ cache_ret.op = "get_or_build"
    /\ ~cache_ret.raised
    /\ \E t \in Threads :
          /\ appended[t] < MaxRunAppends
          /\ storage' = storage \cup {Key(t, appended[t] + 1)}
          /\ appended' = [appended EXCEPT ![t] = appended[t] + 1]
    /\ UNCHANGED <<now, _last_checkpoint_cleanup, cleanup_ret, checkpoint_max,
                   engineVars, runVars, gate_ret>>

NextCache ==
    \/ GetOrBuildGraph
    \/ InvalidateGraphCache
    \/ RunGraph

SpecCache == InitEngineSpec /\ [][NextCache]_vars

\* ----------------------------------------- get_or_build_graph with a scan
\* that can fail: one configuration, a ceiling of one, time passing
InitPrune ==
    /\ InitRun
    /\ plan_max_steps = 1
    /\ plan_revision_enabled = FALSE
    /\ plan_require_approval = FALSE
    /\ InitStore(1)
    /\ InitEngine
    /\ InitServices

GetOrBuildGraphFaulted ==
    /\ \E fault \in ScanFaults :
        \E part \in SUBSET Removed(storage, checkpoint_max) :
          /\ fault = "none" => part = {}
          /\ get_or_build_graph(<<>>, fault, part)
    /\ UNCHANGED <<appended, now, checkpoint_max, route_ret, callers,
                   sse_event, runVars, gate_ret>>

NextPrune ==
    \/ GetOrBuildGraphFaulted
    \/ RunGraph
    \/ Tick

SpecPrune == InitPrune /\ [][NextPrune]_vars

\* -------------------------- get_or_build_graph entered by several threads
\* graph_builder.py holds no lock: threads that call get_or_build_graph with
\* the same configuration run its statements interleaved. A caller is at
\* "idle", then after the check of line 257 at "build" or "return", after
\* build_graph (258) at "store", after the insert (259) at "return", and
\* after the read of line 261 at "done".
Callers == {"c1", "c2", "c3"}
TheConfig == <<>>                   \* every toggle at its default

InitRace ==
    /\ InitRun
    /\ plan_max_steps = 1
    /\ plan_revision_enabled = FALSE
    /\ plan_require_approval = FALSE
    /\ InitStore(_CHECKPOINT_MAX_PER_THREAD)
    /\ compiled = NoGraph
    /\ route_ret = NoRoute
    /\ _graph_cache = <<>>
    /\ builds = 0
    /\ cache_ret = NoCacheCall
    /\ callers = [c \in Callers |-> [at |-> "idle", local |-> 0, ret |-> 0]]
    /\ sse_event = NoEvent
    /\ InitServices

\* lines 254-257: the scan, the fingerprint, the membership test
RaceEnter(c) ==
    /\ callers[c].at = "idle"
    /\ cleanup_old_checkpoints
    /\ callers' = [callers EXCEPT ![c].at =
                      IF _config_fingerprint(TheConfig)
                            \notin DOMAIN _graph_cache
                      THEN "build" ELSE "return"]
    /\ UNCHANGED <<appended, now, checkpoint_max, compiled, route_ret,
                   _graph_cache, builds, cache_ret, sse_event, runVars,
                   gate_ret>>

\* line 258: compiled = build_graph(graph_config)
RaceBuild(c) ==
    /\ callers[c].at = "build"
    /\ builds' = builds + 1
    /\ compiled' = build_graph(TheConfig)
    /\ callers' = [callers EXCEPT ![c].at = "store", ![c].local = builds + 1]
    /\ UNCHANGED <<route_ret, _graph_cache, cache_ret, sse_event, runVars,
                   gate_ret, ckptVars>>

\* line 259: _graph_cache[fp] = compiled
RaceStore(c) ==
    /\ callers[c].at = "store"
    /\ _graph_cache' = DictSet(_graph_cache, _config_fingerprint(TheConfig),
                               callers[c].local)
    /\ callers' = [callers EXCEPT ![c].at = "return"]
    /\ UNCHANGED <<compiled, route_ret, builds, cache_ret, sse_event, runVars,
                   gate_ret, ckptVars>>

\* line 261: return _graph_cache[fp]
RaceReturn(c) ==
    /\ callers[c].at = "return"
    /\ callers' = [callers EXCEPT
                      ![c].at = "done",
                      ![c].ret = _graph_cache[_config_fingerprint(TheConfig)]]
    /\ UNCHANGED <<compiled, route_ret, _graph_cache, builds, cache_ret,
                   sse_event, runVars, gate_ret, ckptVars>>

NextRace ==
    \E c \in Callers :
        \/ RaceEnter(c)
        \/ RaceBuild(c)
        \/ RaceStore(c)
        \/ RaceReturn(c)

SpecRace == InitRace /\ [][NextRace]_vars

\* ------------------------------------------- event builders: agent.py 215-273
\* A text is represented by its length. text[:limit]:
Truncate(len, limit) == IF len > limit THEN limit ELSE len

\* lines 215-221: the token event carries chunk.content as it is
token_event(content) ==
    [type |-> "token", content |-> content, input |-> 0, output |-> 0]

\* lines 242-248: llm_start, "input": full_input[:5000]
llm_start_event(full_input) ==
    [type |-> "llm_start", content |-> 0,
     input |-> Truncate(full_input, LlmInputMax), output |-> 0]

\* _build_llm_end_event: tracked["input"][:5000], output_text[:3000]
_build_llm_end_event(tracked_input, output_text) ==
    [type |-> "llm_end", content |-> 0,
     input |-> Truncate(tracked_input, LlmInputMax),
     output |-> Truncate(output_text, LlmOutputMax)]

\* _build_tool_start_event: "input": str(tool_input)
_build_tool_start_event(tool_input) ==
    [type |-> "tool_start", content |-> 0, input |-> tool_input, output |-> 0]

\* _build_tool_end_event: output_str[:2000]
_build_tool_end_event(output_str) ==
    [type |-> "tool_end", content |-> 0, input |-> 0,
     output |-> Truncate(output_str, ToolOutputMax)]

\* the lengths of raw text tried: empty, short, and around each slice
\* length up to MaxExcess characters past it
RawLengths ==
    {0, 1} \cup UNION {(limit - 1)..(limit + MaxExcess) :
                         limit \in {LlmInputMax, LlmOutputMax, ToolOutputMax}}

\* a raw signal of any kind is turned into its event
BuildEvent ==
    /\ \E a \in RawLengths, b \in RawLengths :
          sse_event' \in {token_event(a), llm_start_event(a),
                          _build_llm_end_event(a, b),
                          _build_tool_start_event(a),
                          _build_tool_end_event(a)}
    /\ UNCHANGED <<compiled, route_ret, cacheVars, runVars, gate_ret, ckptVars>>

NextEvents == BuildEvent

SpecEvents == InitEngineSpec /\ [][NextEvents]_vars

\* The runner under the scheduling of the event loop: a coroutine whose
\* Event has been set is resumed.
SpecWake == Init /\ [][Next]_vars /\ WF_vars(AfterApproval)

\* ------------------------------------------------- SpecStream: call tracking
\* The model-call signals of the stream loops (agent.py 223-255, 406-430)
\* with several run ids, read by one loop after another.
StreamRunIds == {"r1", "r2", "r3"}

StreamSignals ==
    {[kind |-> "on_chat_model_stream", content |-> "t", run_id |-> "r1", name |-> ""]}
    \cup {[kind |-> k, content |-> "", run_id |-> r, name |-> ""] :
        k \in {"on_chat_model_start", "on_chat_model_end"}, r \in StreamRunIds}

\* the loop reads one signal
StreamSignal ==
    /\ pc = "phase1"
    /\ signals < MaxStreamSignals
    /\ \E sig \in StreamSignals :
          /\ events' = events \o SignalEvents(sig, debug_tracking, 0)
          /\ debug_tracking' = SignalTracking(sig, debug_tracking)
    /\ signals' = signals + 1
    /\ UNCHANGED <<pc, planVars, settingsVars, componentVars,
                   approvalVars, replanVars>>

\* the stream ends and the next loop starts with debug_tracking = {}
StreamRestart ==
    /\ pc = "phase1"
    /\ debug_tracking # {}
    /\ debug_tracking' = {}
    /\ UNCHANGED <<pc, events, planVars, settingsVars, componentVars,
                   approvalVars, replanVars, signals>>

NextStream == StreamSignal \/ StreamRestart

SpecStream == InitEngineSpec /\ [][NextStream]_vars

\* ----------------------------------------- SpecMemory: cache/memory_cache.py
\* what a MemoryCache call leaves alone: everything but the cache and its clock
agentVars == <<pc, events, debug_tracking, planVars, settingsVars, approvalVars,
               replanVars, signals, gate_ret, engineVars>>

CachedKeys(cache) == {cache[i].key : i \in DOMAIN cache}

Entry(cache, key) == cache[CHOOSE i \in DOMAIN cache : cache[i].key = key]

\* _delete_unlocked(key): the OrderedDict without the key
_delete_unlocked(cache, key) == SelectSeq(cache, LAMBDA e : e.key # key)

\* faulty variant: the entry keeps its place
move_to_end_kept(cache, key) == cache

\* OrderedDict.move_to_end(key): the entry becomes the last one
move_to_end(cache, key) ==
    _delete_unlocked(cache, key) \o <<Entry(cache, key)>>

\* current_time > entry["expire_at"]
Expired(entry, current_time) == current_time > entry.expire_at

\* the keys in the order of their last use, key now being the latest
Used(order, key) == SelectSeq(order, LAMBDA k : k # key) \o <<key>>

CacheOp(op, key, ret, evicted) ==
    [n |-> mc_ret.n + 1, op |-> op, key |-> key, ret |-> ret,
     evicted |-> evicted]

\* get(key)
CacheGet ==
    /\ mc_ret.n < MaxCacheOps
    /\ \E key \in CacheKeys :
          IF key \notin CachedKeys(_cache)
          THEN /\ mc_ret' = CacheOp("get", key, None, {})
               /\ UNCHANGED <<_cache, recency>>
          ELSE IF Expired(Entry(_cache, key), now)
          THEN /\ _cache' = _delete_unlocked(_cache, key)
               /\ mc_ret' = CacheOp("get", key, None, {key})
               /\ UNCHANGED recency
          ELSE /\ _cache' = move_to_end(_cache, key)
               /\ recency' = Used(recency, key)
               /\ mc_ret' = CacheOp("get", key, Entry(_cache, key).value, {})
    /\ UNCHANGED <<max_size, sessionVars, agentVars, ckptVars>>

\* set(key, value, ttl)
CacheSet ==
    /\ mc_ret.n < MaxCacheOps
    /\ \E key \in CacheKeys, value \in CacheValues, ttl \in Ttls :
          LET entry == [key |-> key, value |-> value, expire_at |-> now + ttl]
          IN  /\ IF key \in CachedKeys(_cache)
                 THEN /\ _cache' =
                            move_to_end(
                                [i \in DOMAIN _cache |->
                                    IF _cache[i].key = key THEN entry ELSE _cache[i]],
                                key)
                      /\ mc_ret' = CacheOp("set", key, None, {})
                 ELSE IF Len(_cache) >= max_size
                 THEN /\ _cache' =
                            Append(_delete_unlocked(_cache, Head(_cache).key), entry)
                      /\ mc_ret' = CacheOp("set", key, None, {Head(_cache).key})
                 ELSE /\ _cache' = Append(_cache, entry)
                      /\ mc_ret' = CacheOp("set", key, None, {})
              /\ recency' = Used(recency, key)
    /\ UNCHANGED <<max_size, sessionVars, agentVars, ckptVars>>

\* delete(key)
CacheDelete ==
    /\ mc_ret.n < MaxCacheOps
    /\ \E key \in CacheKeys :
          /\ _cache' = _delete_unlocked(_cache, key)
          /\ mc_ret' = CacheOp("delete", key, key \in CachedKeys(_cache),
                               {key} \cap CachedKeys(_cache))
    /\ UNCHANGED <<recency, max_size, sessionVars, agentVars, ckptVars>>

\* clear()
CacheClear ==
    /\ mc_ret.n < MaxCacheOps
    /\ _cache' = <<>>
    /\ mc_ret' = CacheOp("clear", "", Len(_cache), CachedKeys(_cache))
    /\ UNCHANGED <<recency, max_size, sessionVars, agentVars, ckptVars>>

\* exists(key): an expired entry is deleted, a live one is not refreshed
CacheExists ==
    /\ mc_ret.n < MaxCacheOps
    /\ \E key \in CacheKeys :
          IF key \notin CachedKeys(_cache)
          THEN /\ mc_ret' = CacheOp("exists", key, FALSE, {})
               /\ UNCHANGED _cache
          ELSE IF Expired(Entry(_cache, key), now)
          THEN /\ _cache' = _delete_unlocked(_cache, key)
               /\ mc_ret' = CacheOp("exists", key, FALSE, {key})
          ELSE /\ mc_ret' = CacheOp("exists", key, TRUE, {})
               /\ UNCHANGED _cache
    /\ UNCHANGED <<recency, max_size, sessionVars, agentVars, ckptVars>>

\* cleanup_expired()
CacheCleanupExpired ==
    /\ mc_ret.n < MaxCacheOps
    /\ LET expired_keys ==
               {_cache[i].key : i \in {j \in DOMAIN _cache : Expired(_cache[j], now)}}
       IN  /\ _cache' = SelectSeq(_cache, LAMBDA e : e.key \notin expired_keys)
           /\ mc_ret' = CacheOp("cleanup_expired", "", Cardinality(expired_keys),
                                expired_keys)
    /\ UNCHANGED <<recency, max_size, sessionVars, agentVars, ckptVars>>

\* a second passes
CacheTick ==
    /\ now < StartTime + MaxCacheTicks
    /\ now' = now + 1
    /\ UNCHANGED <<memoryVars, sessionVars, agentVars, storage, appended,
                   _last_checkpoint_cleanup, cleanup_ret, checkpoint_max>>

NextMemory ==
    \/ CacheGet
    \/ CacheSet
    \/ CacheDelete
    \/ CacheClear
    \/ CacheExists
    \/ CacheCleanupExpired
    \/ CacheTick

InitMemory ==
    /\ InitRun
    /\ plan_max_steps = 1
    /\ plan_revision_enabled = FALSE
    /\ plan_require_approval = FALSE
    /\ InitStore(_CHECKPOINT_MAX_PER_THREAD)
    /\ InitEngine
    /\ InitSessions("posix")
    /\ \E size \in 1..MaxCacheSize : InitMemoryCache(size)

SpecMemory == InitMemory /\ [][NextMemory]_vars

\* ------------------------------------------- SpecSession: sessions_manager.py
\* One session file, written by several threads. A session's data is a
\* record of its messages (their ids), title, plan and debug call timestamps.
EmptySession ==
    [messages |-> <<>>, title |-> None, plan |-> None, debug_calls |-> <<>>]

\* get_session_data(session_id): the file's data, or an empty session when
\* the path does not exist
get_session_data(file) == IF file = Missing THEN EmptySession ELSE file

\* list.sort(key=_get_ts), a stable sort: ts goes after the entries <= ts
RECURSIVE SortedInsert(_, _)
SortedInsert(sorted, ts) ==
    IF sorted = <<>> THEN <<ts>>
    ELSE IF Head(sorted) <= ts
    THEN <<Head(sorted)>> \o SortedInsert(Tail(sorted), ts)
    ELSE <<ts>> \o sorted

RECURSIVE Sort(_)
Sort(calls) ==
    IF calls = <<>> THEN <<>>
    ELSE SortedInsert(Sort(SubSeq(calls, 1, Len(calls) - 1)), calls[Len(calls)])

LockedOps == {"save_message", "set_title", "save_plan", "save_debug_calls"}

\* what a locked operation makes of the session data it has read; arg is the
\* message id, the plan, or the timestamp of the debug call
Modified(op, session_data, arg, plan) ==
    CASE op = "save_message" ->
            [session_data EXCEPT
                !.messages = Append(@, arg),
                !.plan = IF plan # None THEN plan ELSE @]
      [] op = "set_title" -> [session_data EXCEPT !.title = "T"]
      [] op = "save_plan" -> [session_data EXCEPT !.plan = plan]
      [] op = "save_debug_calls" ->
            [session_data EXCEPT !.debug_calls = Sort(Append(@, arg))]

\* what a SessionManager call leaves alone
outsideSession == <<memoryVars, agentVars, ckptVars>>

Alive == ~fs_log.crashed

At(w, at) == writers[w].at = at

\* `with self._lock:` is entered
LockFree(holder) == holder = "free"

\* a locked operation starts: the lock is acquired
Acquire(w) ==
    /\ Alive /\ At(w, "idle")
    /\ fs_log.ops < MaxSessionOps
    /\ LockFree(_lock)
    /\ \E op \in LockedOps :
          writers' = [writers EXCEPT ![w] =
                         [at |-> "locked", op |-> op, data |-> Missing,
                          msg |-> fs_log.ops + 1]]
    /\ _lock' = w
    /\ fs_log' = [fs_log EXCEPT !.ops = @ + 1]
    /\ UNCHANGED <<os_name, session_file, tmp_files, saved, fs_read,
                   outsideSession>>

\* inside the lock: get_session_data, then the change of the operation
ReadModify(w) ==
    /\ Alive /\ At(w, "locked")
    /\ \E plan \in {None, "P"}, ts \in 1..2 :
          LET op == writers[w].op
              arg == IF op = "save_message" THEN writers[w].msg ELSE ts
          IN  /\ op # "save_message" => (op = "save_plan" \/ plan = None)
              /\ op # "save_debug_calls" => ts = 1
              /\ writers' = [writers EXCEPT ![w] =
                     [@ EXCEPT !.at = "write",
                               !.data = Modified(op, get_session_data(session_file),
                                                 arg, plan)]]
    /\ UNCHANGED <<os_name, session_file, tmp_files, _lock, saved, fs_read, fs_log,
                   outsideSession>>

\* create_session: without the lock, the path is tested and, when it does
\* not exist, an empty session is written
CreateSession(w) ==
    /\ Alive /\ At(w, "idle")
    /\ fs_log.ops < MaxSessionOps
    /\ IF session_file = Missing
       THEN writers' = [writers EXCEPT ![w] =
                [at |-> "write", op |-> "create_session", data |-> EmptySession,
                 msg |-> 0]]
       ELSE UNCHANGED writers
    /\ fs_log' = [fs_log EXCEPT !.ops = @ + 1]
    /\ UNCHANGED <<os_name, session_file, tmp_files, _lock, saved, fs_read,
                   outsideSession>>

\* delete_session: without the lock, the path is unlinked if it exists
DeleteSession(w) ==
    /\ Alive /\ At(w, "idle")
    /\ fs_log.ops < MaxSessionOps
    /\ session_file' = Missing
    /\ fs_log' = [fs_log EXCEPT !.ops = @ + 1,
                                !.deleted = @ \/ session_file # Missing]
    /\ UNCHANGED <<os_name, tmp_files, _lock, writers, saved, fs_read,
                   outsideSession>>

\* _write_session_data: mkstemp, and the write of the content has begun
WriteOpen(w) ==
    /\ Alive /\ At(w, "write")
    /\ tmp_files' = [tmp_files EXCEPT ![w] = Partial]
    /\ writers' = [writers EXCEPT ![w].at = "tmp_open"]
    /\ UNCHANGED <<os_name, session_file, _lock, saved, fs_read, fs_log,
                   outsideSession>>

\* _write_session_data: the content is written and the file closed
WriteClose(w) ==
    /\ Alive /\ At(w, "tmp_open")
    /\ tmp_files' = [tmp_files EXCEPT ![w] = writers[w].data]
    /\ writers' = [writers EXCEPT ![w].at = "tmp_closed"]
    /\ UNCHANGED <<os_name, session_file, _lock, saved, fs_read, fs_log,
                   outsideSession>>

\* _write_session_data on Windows: the existing target is unlinked first
WriteUnlink(w) ==
    /\ Alive /\ At(w, "tmp_closed")
    /\ os_name = "nt" /\ session_file # Missing
    /\ session_file' = Missing
    /\ writers' = [writers EXCEPT ![w].at = "unlinked"]
    /\ UNCHANGED <<os_name, tmp_files, _lock, saved, fs_read, fs_log,
                   outsideSession>>

\* os.rename(tmp_path, path): replaces the target, except on Windows, where
\* it raises when the target exists; the handler then unlinks the temporary
\* file and the exception leaves the operation
WriteRename(w) ==
    /\ Alive
    /\ \/ At(w, "unlinked")
       \/ At(w, "tmp_closed") /\ ~(os_name = "nt" /\ session_file # Missing)
    /\ IF os_name = "nt" /\ session_file # Missing
       THEN /\ writers' = [writers EXCEPT ![w].at = "failed"]
            /\ UNCHANGED <<session_file, fs_log>>
       ELSE /\ session_file' = tmp_files[w]
            /\ writers' = [writers EXCEPT ![w].at = "written"]
            /\ fs_log' = [fs_log EXCEPT !.written = TRUE]
    /\ tmp_files' = [tmp_files EXCEPT ![w] = NoFile]
    /\ UNCHANGED <<os_name, _lock, saved, fs_read,
                   outsideSession>>

\* the operation returns (or its exception leaves it): the lock, if held, is
\* released; a save_message that wrote its file is complete
Return(w) ==
    /\ Alive
    /\ At(w, "written") \/ At(w, "failed")
    /\ saved' = IF writers[w].op = "save_message" /\ At(w, "written")
                THEN saved \cup {writers[w].msg}
                ELSE saved
    /\ _lock' = IF _lock = w THEN "free" ELSE _lock
    /\ writers' = [writers EXCEPT ![w] = Idle]
    /\ UNCHANGED <<os_name, session_file, tmp_files, fs_read, fs_log,
                   outsideSession>>

\* a reader calls get_session_data without the lock
ReadSession ==
    /\ Alive
    /\ fs_read' = [found |-> session_file, written |-> fs_log.written,
                   deleted |-> fs_log.deleted]
    /\ fs_read' # fs_read
    /\ UNCHANGED <<os_name, session_file, tmp_files, _lock, writers, saved, fs_log,
                   outsideSession>>

\* the process dies inside _write_session_data
Crash ==
    /\ Alive
    /\ \E w \in Writers :
          writers[w].at \in {"write", "tmp_open", "tmp_closed", "unlinked"}
    /\ fs_log' = [fs_log EXCEPT !.crashed = TRUE]
    /\ UNCHANGED <<os_name, session_file, tmp_files, _lock, writers, saved, fs_read,
                   outsideSession>>

NextSession ==
    \/ \E w \in Writers : Acquire(w)
    \/ \E w \in Writers : ReadModify(w)
    \/ \E w \in Writers : CreateSession(w)
    \/ \E w \in Writers : DeleteSession(w)
    \/ \E w \in Writers : WriteOpen(w)
    \/ \E w \in Writers : WriteClose(w)
    \/ \E w \in Writers : WriteUnlink(w)
    \/ \E w \in Writers : WriteRename(w)
    \/ \E w \in Writers : Return(w)
    \/ ReadSession
    \/ Crash

InitSession ==
    /\ InitRun
    /\ plan_max_steps = 1
    /\ plan_revision_enabled = FALSE
    /\ plan_require_approval = FALSE
    /\ InitStore(_CHECKPOINT_MAX_PER_THREAD)
    /\ InitEngine
    /\ InitMemoryCache(DefaultCacheSize)
    /\ \E os \in {"posix", "nt"} : InitSessions(os)

SpecSession == InitSession /\ [][NextSession]_vars

TypeOK ==
    /\ pc \in {"phase1", "awaiting", "loop", "sub", "replan", "break",
               "finished", "raised", "eval"}
    /\ step_index \in 0..(MaxCeiling + 1)
    /\ Len(past_steps) = step_index
    /\ Len(origin) = Len(steps)

\* ================================================================ claims
IsStatus(e, sid, status) ==
    e.type = "plan_updated" /\ e.step_id = sid /\ e.status = status

StatusEvents == SelectSeq(events, LAMBDA e : e.type = "plan_updated")

Count(type) == Cardinality({i \in DOMAIN events : events[i].type = type})

RunningCount ==
    Cardinality({i \in DOMAIN events :
        events[i].type = "plan_updated" /\ events[i].status = "running"})

\* the runner coroutine has ended: it returned, or an exception left it
RunOver == pc \in {"finished", "raised"}

\* C1: every event a step's sub-execution yields (token, llm_start, llm_end,
\* tool_start, tool_end) comes after the plan_updated(running) event of that
\* step, and no plan_updated(completed) event of that step comes before it.
C1_RunningBeforeStepEvents ==
    \A i \in DOMAIN events :
        events[i].at > 0 =>
            LET sid == steps[events[i].at].id
            IN  /\ events[i].type \in
                       {"token", "llm_start", "llm_end", "tool_start", "tool_end"}
                /\ \E j \in 1..(i - 1) : IsStatus(events[j], sid, "running")
                /\ \A j \in 1..i : ~IsStatus(events[j], sid, "completed")

\* a step's sub-execution yielded an event and the step was then completed
C1_Witness ==
    \E i, j \in DOMAIN events :
        /\ i < j
        /\ events[i].at = 1
        /\ IsStatus(events[j], steps[1].id, "completed")

\* C2 (as claimed): at most one step is marked running and not yet
\* completed; and when every replanner decision is continue or None the
\* status events are running(step 1), completed(step 1), running(step 2), ...
\* in plan order, every step marked running is completed, and done is the
\* last event of the run.
OpenSteps ==
    {i \in DOMAIN events :
        /\ events[i].type = "plan_updated" /\ events[i].status = "running"
        /\ ~\E j \in (i + 1)..Len(events) :
               IsStatus(events[j], events[i].step_id, "completed")}

C2_Claim ==
    /\ Cardinality(OpenSteps) <= 1
    /\ only_continue =>
          \A k \in DOMAIN StatusEvents :
              /\ StatusEvents[k].step_id = steps[(k + 1) \div 2].id
              /\ StatusEvents[k].status =
                     (IF k % 2 = 1 THEN "running" ELSE "completed")
    /\ (only_continue /\ RunOver /\ RunningCount > 0) =>
          /\ OpenSteps = {}
          /\ events[Len(events)].type = "done"

\* C3 (as claimed): a run that is over has emitted exactly one done event,
\* and no event ever follows a done event.
C3_Claim ==
    /\ Count("done") <= 1
    /\ Count("done") = 1 => events[Len(events)].type = "done"
    /\ RunOver => Count("done") = 1

\* C4 (as claimed): no more than plan_max_steps steps are ever marked
\* running, and once the run of the step loop is over done has been emitted.
C4_Claim ==
    /\ RunningCount <= plan_max_steps
    /\ (RunOver /\ RunningCount > 0) => Count("done") > 0

\* C5 (as claimed): a revision with k new titles emits plan_revised with
\* exactly k steps whose ids are max_id+1 .. max_id+k, max_id being the
\* highest id in the plan before the revision.
MaxId(all_steps) ==
    CHOOSE m \in {all_steps[i].id : i \in DOMAIN all_steps} :
        \A i \in DOMAIN all_steps : all_steps[i].id <= m

C5_Claim ==
    [][revisions' = revisions + 1 =>
          LET ev == events'[Len(events')]
              k == Len(last_llm'.revised_steps)
          IN  /\ ev.type = "plan_revised"
              /\ Len(ev.steps) = k
              /\ \A i \in 1..k : ev.steps[i].id = MaxId(steps) + i]_vars

\* C6 (as claimed): the ids of the current step sequence are pairwise
\* distinct, and an id once given to a step is never given to another step.
C6_Claim ==
    /\ \A i, j \in DOMAIN steps : steps[i].id = steps[j].id => i = j
    /\ \A a, b \in issued : a[1] = b[1] => a = b

\* C7: a revision replaces only the suffix from the current index on: the
\* steps before the current index (all the completed ones) keep position,
\* id and title, the index does not move, and the new suffix is the list
\* the plan_revised event carries.
C7_RevisionKeepsPrefix ==
    [][(steps # <<>> /\ steps' # steps) =>
          /\ revisions' = revisions + 1
          /\ step_index' = step_index
          /\ Len(steps') > step_index
          /\ \A i \in 1..step_index : steps'[i] = steps[i]
          /\ \A i \in 1..step_index :
                \E j \in DOMAIN events : IsStatus(events[j], steps[i].id, "completed")
          /\ RemainingSteps(steps', step_index) = events'[Len(events')].steps]_vars

\* a revision happened after at least one step was completed
C7_Witness ==
    /\ revisions > 0
    /\ step_index >= 1
    /\ events[Len(events)].type = "plan_revised"
    /\ steps[1] = PlanCreate(1)[1]

\* C8: after a finish decision every remaining step has a
\* plan_updated(completed) event and no plan_updated(running) event, the
\* response is on the stream as a token iff it is non-empty, no further step
\* is started, and the run goes on only to done, its last event.
C8_FinishSkipsRemaining ==
    last_decision = "finish" =>
        /\ pc \in {"break", "finished"}
        /\ \A i \in (step_index + 1)..Len(steps) :
              /\ \E j \in DOMAIN events : IsStatus(events[j], steps[i].id, "completed")
              /\ ~\E j \in DOMAIN events : IsStatus(events[j], steps[i].id, "running")
        /\ (\E j \in DOMAIN events :
               /\ events[j].type = "token"
               /\ events[j].content = "\n\n" \o last_llm.response
               /\ events[j].at = 0)
           <=> last_llm.response # ""
        /\ RunningCount = step_index
        /\ pc = "finished" =>
              /\ events[Len(events)].type = "done"
              /\ Count("done") = 1

\* the replanner finished the plan early with a response, and the run ended
C8_Witness ==
    /\ last_decision = "finish"
    /\ last_llm.response # ""
    /\ pc = "finished"
    /\ step_index < Len(steps)

\* C9: a failed model call of the replanner comes back as None, and None
\* has the effect of continue: no event, the step sequence and the index
\* unchanged, control back at the top of the loop; from there the next step
\* in order is marked running unless the step ceiling is reached.
ContinueEffect ==
    /\ steps' = steps
    /\ step_index' = step_index
    /\ events' = events
    /\ pc' = "loop"

C9_ReplanFailureIsContinue ==
    /\ [][(evaluations' = evaluations + 1 /\ last_llm'.action = "raise") =>
             (last_decision' = "None" /\ ContinueEffect)]_vars
    /\ [][(evaluations' = evaluations + 1 /\ last_decision' \in {"None", "continue"}) =>
             ContinueEffect]_vars
    /\ [][(pc = "loop" /\ last_decision = "None" /\ pc' # "loop"
             /\ step_index < Len(steps)) =>
             IF step_index < plan_max_steps
             THEN /\ pc' = "sub"
                  /\ events' = Append(events,
                         Event("plan_updated", steps[step_index + 1].id,
                               "running", "", <<>>, 0))
             ELSE pc' = "finished"]_vars

\* the model call failed and the next step was started all the same
C9_Witness ==
    /\ last_llm.action = "raise"
    /\ last_decision = "None"
    /\ pc = "sub"
    /\ step_index >= 1

\* C10: called with replanning disabled, or with no step at or after the
\* current index, _evaluate_replan returns None and makes no model call.
C10_NoModelCallWhenDisabledOrDone ==
    (evaluations > 0
        /\ (~plan_revision_enabled \/ RemainingSteps(steps, step_index) = <<>>)) =>
        /\ last_decision = "None"
        /\ last_llm = NotInvoked
        /\ llm_calls < evaluations

\* called with replanning enabled and no remaining step
C10_Witness ==
    /\ evaluations > 0
    /\ plan_revision_enabled
    /\ steps # <<>>
    /\ step_index = Len(steps)
    /\ last_decision = "None"

\* C11 (as claimed): when the sub-execution of a step raises, an error event
\* for that step is on the stream, the step is marked completed, and the
\* runner is still in the step loop (the exception has not ended the run).
\* RaisedStep is the position of the step whose sub-execution raised (0: none):
\* the step was marked running, the index not yet advanced, the run ended by
\* an exception.
RaisedStep ==
    IF pc = "raised" /\ RunningCount > step_index THEN step_index + 1 ELSE 0

C11_Claim ==
    RaisedStep > 0 =>
        /\ \E i \in DOMAIN events :
              events[i].type = "error" /\ events[i].at = RaisedStep
        /\ \E i \in DOMAIN events :
              IsStatus(events[i], steps[RaisedStep].id, "completed")
        /\ pc \in {"loop", "sub", "replan", "break", "finished"}

\* ------------------------------------------------ approval registry claims
\* the step is a direct call op of the approval registry
IsGateCall(op) == gate_ret'.n = gate_ret.n + 1 /\ gate_ret'.op = op

\* the Event objects a resolve can still set: those held under some plan_id
Releasable(pending) == {pending[p] : p \in DOMAIN pending}

\* C12 (as claimed): a register for a plan_id that is already pending fails
\* (does not return normally), leaves the pending entry and every wait
\* handle as they were, and the first waiter's handle stays releasable.
C12_Claim ==
    [][ (IsGateCall("register")
            /\ gate_ret'.plan_id \in DOMAIN _plan_approval_events)
        => /\ gate_ret'.ret = FALSE
           /\ _plan_approval_events' = _plan_approval_events
           /\ event_flags' = event_flags
           /\ _plan_approval_events[gate_ret'.plan_id]
                 \in Releasable(_plan_approval_events') ]_vars

\* C13: a resolve that finds a pending entry returns true, stores the
\* decision and sets that entry's Event; a resolve that finds none (a second
\* resolve included) returns false, sets no Event and leaves the stored
\* results as they were.
C13_ResolveOnce ==
    [][ IsGateCall("resolve") =>
          LET p == gate_ret'.plan_id
          IN  IF p \in DOMAIN _plan_approval_events
              THEN /\ gate_ret'.ret = TRUE
                   /\ p \in DOMAIN _plan_approval_results'
                   /\ _plan_approval_results'[p] = gate_ret'.arg
                   /\ event_flags'[_plan_approval_events[p]] = TRUE
                   /\ p \notin DOMAIN _plan_approval_events'
              ELSE /\ gate_ret'.ret = FALSE
                   /\ event_flags' = event_flags
                   /\ _plan_approval_results' = _plan_approval_results ]_vars

\* a second resolve with the opposite decision has just returned false and
\* the first decision is still the stored one
C13_Witness ==
    /\ gate_ret.op = "resolve"
    /\ gate_ret.ret = FALSE
    /\ gate_ret.plan_id \in DOMAIN _plan_approval_results
    /\ _plan_approval_results[gate_ret.plan_id] # gate_ret.arg
    /\ <<gate_ret.plan_id, ~gate_ret.arg>> \in resolved

\* C14: get_plan_approval_result returns the stored decision and removes it,
\* and returns true when none is stored (so true, not the rejection, on a
\* second call after a rejection).
C14_ConsumeOnce ==
    [][ IsGateCall("consume") =>
          LET p == gate_ret'.plan_id
          IN  /\ gate_ret'.ret = IF p \in DOMAIN _plan_approval_results
                                 THEN _plan_approval_results[p]
                                 ELSE TRUE
              /\ p \notin DOMAIN _plan_approval_results'
              /\ \A q \in DOMAIN _plan_approval_results :
                    q # p => /\ q \in DOMAIN _plan_approval_results'
                             /\ _plan_approval_results'[q] =
                                    _plan_approval_results[q] ]_vars

\* the plan was only ever rejected, the rejection has been consumed, and a
\* further consume has just returned true
C14_Witness ==
    /\ gate_ret.op = "consume"
    /\ gate_ret.ret = TRUE
    /\ <<gate_ret.plan_id, FALSE>> \in resolved
    /\ <<gate_ret.plan_id, TRUE>> \notin resolved
    /\ gate_ret.plan_id \notin DOMAIN _plan_approval_results

\* C15: when approval is required and the plan was resolved with
\* approved = false, no step is ever marked running, and once the runner has
\* woken the stream ends with the rejection token followed by done.
C15_RejectionStopsPlan ==
    (plan_require_approval /\ <<ThePlan, FALSE>> \in resolved) =>
        /\ RunningCount = 0
        /\ pc \in {"awaiting", "finished"}
        /\ pc = "finished" =>
              /\ Len(events) >= 2
              /\ events[Len(events) - 1] = Yield("token", "rejected", 0)
              /\ events[Len(events)].type = "done"

C15_Witness ==
    /\ plan_require_approval
    /\ <<ThePlan, FALSE>> \in resolved
    /\ pc = "finished"

\* C16: when approval is required, the approval request is on the stream
\* before the runner waits, and a step is marked running only after a
\* resolve(plan_id, true), the request preceding every running event.
C16_ApprovalGatesExecution ==
    plan_require_approval =>
        /\ pc = "awaiting" =>
              \E i \in DOMAIN events : events[i].type = "plan_approval_request"
        /\ RunningCount > 0 => <<ThePlan, TRUE>> \in resolved
        /\ \A j \in DOMAIN events :
              (events[j].type = "plan_updated" /\ events[j].status = "running")
              => \E i \in 1..(j - 1) :
                    events[i].type = "plan_approval_request"

C16_Witness ==
    /\ plan_require_approval
    /\ RunningCount > 0
    /\ pc = "finished"

\* ------------------------------------------------ checkpoint store claims
\* the step is a call of cleanup_old_checkpoints that scanned the store
ScanStep == _last_checkpoint_cleanup' # _last_checkpoint_cleanup

\* the n most recently appended checkpoints of a thread
MostRecent(thread_id, n) ==
    {Key(thread_id, i) : i \in {j \in 1..appended[thread_id] :
                                   j > appended[thread_id] - n}}

C18_Claim ==
    \A t \in Threads : appended[t] > 0 => Key(t, appended[t]) \in storage

C20_RateLimited ==
    [][ /\ (cleanup_ret' # cleanup_ret \/ ScanStep)
           => IF now - _last_checkpoint_cleanup < _CHECKPOINT_CLEANUP_INTERVAL
              THEN /\ cleanup_ret'.cleaned = 0
                   /\ ~cleanup_ret'.scanned
                   /\ storage' = storage
                   /\ ~ScanStep
              ELSE /\ cleanup_ret'.scanned
                   /\ _last_checkpoint_cleanup' = now
        /\ ~(storage \subseteq storage')
           => /\ ScanStep
              /\ now - _last_checkpoint_cleanup
                    >= _CHECKPOINT_CLEANUP_INTERVAL ]_vars

\* a call came after the last scan and less than an interval after it, with
\* a thread over the ceiling, and left the store alone
C20_Witness ==
    /\ ~cleanup_ret.scanned
    /\ _last_checkpoint_cleanup > 0
    /\ now > _last_checkpoint_cleanup
    /\ now - _last_checkpoint_cleanup < _CHECKPOINT_CLEANUP_INTERVAL
    /\ \E t \in Threads : Cardinality(by_thread(storage, t)) > checkpoint_max

\* --------------------------------------------------- graph assembly claims
\* one step along the edges from the nodes of S
Succ(edges, S) == S \cup {e[2] : e \in {f \in edges : f[1] \in S}}

RECURSIVE ReachFrom(_, _)
ReachFrom(edges, S) ==
    IF Succ(edges, S) = S THEN S ELSE ReachFrom(edges, Succ(edges, S))

Out(edges, n) == {e[2] : e \in {f \in edges : f[1] = n}}

\* no node lies on a cycle
Acyclic(edges) ==
    \A e \in edges : e[1] \notin ReachFrom(edges, {e[2]})

Built == compiled # NoGraph

\* C24 (as claimed): for a configuration with approval enabled and planner
\* disabled the assembler gives a construction error and no graph.
C24_Claim ==
    (Built /\ approval_enabled(compiled.config)
           /\ ~planner_enabled(compiled.config))
    => compiled.nodes = {}

\* C25: for every toggle combination every declared node is reachable from
\* the entry and END is reachable from every declared node.
C25_NodesReachable ==
    Built =>
        \A n \in compiled.nodes :
            /\ n \in ReachFrom(compiled.edges, {START})
            /\ END \in ReachFrom(compiled.edges, {n})

\* the graph with every optional node has been assembled
C25_Witness ==
    /\ Built
    /\ compiled.nodes = {"agent", "plan_gate", "approval", "executor_pre",
                         "executor", "replanner", "summarizer"}

\* the two back edges the claim names
AgentBackEdges == {<<"summarizer", "agent">>, <<"approval", "agent">>}

\* the edges that close the step loop: back into executor_pre from the
\* node that routes after executor
StepLoopEdges == {<<"replanner", "executor_pre">>,
                  <<"executor", "executor_pre">>}

\* C26 (as claimed): with the summarizer->agent and approval->agent edges
\* removed the assembled graph is a DAG.
C26_Claim ==
    Built => Acyclic(compiled.edges \ AgentBackEdges)

\* C26 (amended): the only cycles are those closed by the two back edges
\* into agent and by the step-loop edge back into executor_pre; with these
\* removed the graph is a DAG.
C26_DagWithoutLoopEdges ==
    Built => Acyclic(compiled.edges \ (AgentBackEdges \cup StepLoopEdges))

\* a graph holding both back edges into agent and a step loop
C26_Witness ==
    /\ Built
    /\ AgentBackEdges \subseteq compiled.edges
    /\ <<"replanner", "executor_pre">> \in compiled.edges

\* C27: the node set and the edge set are those of the wiring table.
C27_WiringTable ==
    Built =>
      LET p == planner_enabled(compiled.config)
          a == approval_enabled(compiled.config)
          r == replanner_enabled(compiled.config)
          u == summarizer_enabled(compiled.config)
          N == compiled.nodes
          E == compiled.edges
      IN  /\ Out(E, START) = {"agent"}
          /\ \A e \in E : e[1] \in N \cup {START} /\ e[2] \in N \cup {END}
          /\ ~p => /\ N = {"agent"}
                   /\ E = {<<START, "agent">>, <<"agent", END>>}
          /\ p => /\ {"agent", "plan_gate", "executor_pre", "executor"}
                      \subseteq N
                  /\ N \subseteq {"agent", "plan_gate", "executor_pre",
                                  "executor", "approval", "replanner",
                                  "summarizer"}
                  /\ ("approval" \in N) <=> a
                  /\ ("replanner" \in N) <=> r
                  /\ ("summarizer" \in N) <=> u
                  /\ Out(E, "agent") = {"plan_gate", END}
                  /\ Out(E, "executor_pre") = {"executor"}
                  /\ Out(E, "plan_gate") =
                        IF a THEN {"approval", "executor_pre"}
                             ELSE {"executor_pre"}
                  /\ a => Out(E, "approval") = {"executor_pre", "agent"}
                  /\ Out(E, "executor") =
                        IF r THEN {"replanner"}
                        ELSE {"executor_pre", IF u THEN "summarizer" ELSE END}
                  /\ r => Out(E, "replanner") =
                             {"executor_pre", IF u THEN "summarizer" ELSE END}
                  /\ u => Out(E, "summarizer") = {"agent"}

\* a configuration that turns approval on with the planner off, and the
\* one-edge graph built for it
C27_Witness ==
    /\ Built
    /\ approval_enabled(compiled.config)
    /\ ~planner_enabled(compiled.config)
    /\ compiled.edges = {<<START, "agent">>, <<"agent", END>>}

\* C28: without a replanner the route after executor is executor_pre iff a
\* plan exists and step_index < total_steps and step_index < max_steps, and
\* the done target otherwise (summarizer if enabled, else END); the two
\* routing functions decide alike on the same input.
C28_RouteFromIndexes ==
    route_ret # NoRoute =>
      LET continue == /\ route_ret.plan_data
                      /\ route_ret.step_index < route_ret.total_steps
                      /\ route_ret.step_index < route_ret.max_steps
          with_summarizer == _route_executor_no_replanner(
              route_ret.plan_data, route_ret.step_index,
              route_ret.total_steps, route_ret.max_steps)
          minimal == _route_executor_minimal(
              route_ret.plan_data, route_ret.step_index,
              route_ret.total_steps, route_ret.max_steps)
      IN  /\ route_ret.ret =
                IF continue THEN "executor_pre"
                ELSE IF summarizer_enabled(compiled.config)
                     THEN "summarizer" ELSE END
          /\ route_ret.ret \in Out(compiled.edges, "executor")
          /\ (with_summarizer = "executor_pre") <=> (minimal = "executor_pre")
          /\ with_summarizer \in {"executor_pre", "summarizer"}
          /\ minimal \in {"executor_pre", END}

\* the minimal graph stops at the step ceiling with plan steps left
C28_Witness ==
    /\ route_ret.router = "_route_executor_minimal"
    /\ route_ret.plan_data
    /\ route_ret.step_index < route_ret.total_steps
    /\ route_ret.step_index >= route_ret.max_steps
    /\ route_ret.ret = END

\* ------------------------------------------------------ graph cache claims
\* C21: a failure during the scan (a key deleted by another party while the
\* scan runs, or any other exception) does not leave get_or_build_graph: the
\* call returns the compiled graph the cache holds for the configuration.
C21_PruneFailureSwallowed ==
    cache_ret.op = "get_or_build" =>
        /\ ~cache_ret.raised
        /\ cache_ret.ret \in 1..builds
        /\ _config_fingerprint(cache_ret.config) \in DOMAIN _graph_cache
        /\ _graph_cache[_config_fingerprint(cache_ret.config)] = cache_ret.ret

\* the last call met a key deleted under the scan: the store lost more keys
\* than the scan counted, and the call returned a graph
C21_Witness ==
    /\ cache_ret.op = "get_or_build"
    /\ cache_ret.fault = "key_error"
    /\ cleanup_ret.scanned
    /\ appended["t1"] + appended["t2"] - Cardinality(storage)
          > cleanup_ret.cleaned
    /\ cache_ret.ret >= 1

\* the same keys with the same values, in whatever order
SameContent(a, b) == {a[i] : i \in DOMAIN a} = {b[i] : i \in DOMAIN b}

\* the same keys, and exactly one of them with another value
DifferInOneToggle(a, b) ==
    /\ {a[i][1] : i \in DOMAIN a} = {b[i][1] : i \in DOMAIN b}
    /\ Cardinality({a[i] : i \in DOMAIN a} \ {b[i] : i \in DOMAIN b}) = 1

\* C22: of two consecutive get_or_build calls, the second returns the
\* instance of the first without building when the configurations have the
\* same content (key order aside), and another instance when they differ in
\* one toggle.
C22_SameContentSameInstance ==
    [][ (cache_ret.op = "get_or_build" /\ cache_ret'.op = "get_or_build"
           /\ cache_ret' # cache_ret)
        => /\ SameContent(cache_ret.config, cache_ret'.config)
                => /\ cache_ret'.ret = cache_ret.ret
                   /\ ~cache_ret'.built
                   /\ builds' = builds
           /\ DifferInOneToggle(cache_ret.config, cache_ret'.config)
                => cache_ret'.ret # cache_ret.ret ]_vars

\* a configuration whose keys are not in sorted order was served from the
\* cache, and one graph only was ever built
C22_Witness ==
    /\ cache_ret.op = "get_or_build"
    /\ ~cache_ret.built
    /\ cache_ret.config # _config_fingerprint(cache_ret.config)
    /\ builds = 1

\* C23: invalidate_graph_cache empties the cache and leaves the checkpoint
\* store alone; the get_or_build that follows it builds a graph no earlier
\* call returned.
C23_InvalidateForcesRebuild ==
    [][ /\ (cache_ret'.op = "invalidate" /\ cache_ret' # cache_ret)
           => /\ _graph_cache' = <<>>
              /\ UNCHANGED ckptVars
        /\ (cache_ret.op = "invalidate" /\ cache_ret'.op = "get_or_build")
           => /\ cache_ret'.built
              /\ builds' = builds + 1
              /\ cache_ret'.ret > builds
              /\ compiled' = build_graph(cache_ret'.config) ]_vars

\* a graph was rebuilt after an invalidation, with checkpoints in the store
C23_Witness ==
    /\ cache_ret.op = "get_or_build"
    /\ cache_ret.built
    /\ builds >= 2
    /\ Cardinality(DOMAIN _graph_cache) = 1
    /\ storage # {}

\* C29 (as claimed): when several callers ask for the same configuration on
\* an empty cache the graph is built once and every caller that has returned
\* holds the one instance the cache stores.
C29_Claim ==
    /\ builds <= 1
    /\ \A c \in Callers :
          callers[c].at = "done" =>
              /\ callers[c].ret
                    = _graph_cache[_config_fingerprint(TheConfig)]
              /\ \A d \in Callers :
                    callers[d].at = "done" => callers[d].ret = callers[c].ret

\* ---------------------------------------------------- event builder claims
\* C30 (as claimed): every text field of every emitted event is no longer
\* than a fixed maximum (the largest slice length the builders use),
\* whatever the length of the raw text.
C30_Claim ==
    /\ sse_event.content <= LlmInputMax
    /\ sse_event.input <= LlmInputMax
    /\ sse_event.output <= LlmInputMax

\* ------------------------------------------------------------------ C31
\* a run in which no plan was created (the case the specification calls
\* "planner disabled": the runner in agent.py reads no planner toggle)
PlanFree == steps = <<>>

\* C31 (as claimed): a run without a plan that consumed some signal of the
\* model stream and is over has yielded exactly two events, one token event
\* followed by done.
C31_Claim ==
    (RunOver /\ PlanFree /\ signals >= 1) =>
        /\ Len(events) = 2
        /\ events[1].type = "token"
        /\ events[2].type = "done"

\* ------------------------------------------------------------------ C32
Rejected == \E i \in DOMAIN events : events[i] = Yield("token", "rejected", 0)

\* what the runner holds of a resolve(ThePlan, b) that returned true: while
\* it waits its Event is set and b is the stored decision, afterwards it has
\* taken the branch of b
Delivered(b) ==
    IF pc = "awaiting"
    THEN /\ event_flags[approval_event]
         /\ ThePlan \in DOMAIN _plan_approval_results
         /\ _plan_approval_results[ThePlan] = b
    ELSE /\ Rejected <=> ~b
         /\ ~b => pc = "finished" /\ RunningCount = 0

\* C32: under every interleaving of the runner (request sent, approval
\* registered, wait, consume) with resolve calls, a resolve(plan_id, b) that
\* returned true makes the runner leave the wait and act on exactly b; a
\* resolve made before the approval is registered returns false and stores
\* nothing; and the runner does not stay in the wait after a resolve that
\* returned true.
C32_DecisionNeverLost ==
    /\ [](\A b \in BOOLEAN : <<ThePlan, b>> \in resolved => Delivered(b))
    /\ [](pc = "phase1" => resolved = {} /\ _plan_approval_results = <<>>)
    /\ [](Rejected => <<ThePlan, FALSE>> \in resolved)
    /\ (resolved # {}) ~> (pc # "awaiting")

\* the approval arrived while the runner waited and the runner has gone on
\* into the step loop
C32_Witness ==
    /\ plan_require_approval
    /\ <<ThePlan, TRUE>> \in resolved
    /\ ~Rejected
    /\ pc = "loop"
    /\ ThePlan \notin DOMAIN _plan_approval_results

\* ------------------------------------------------------------------ C33
\* the runner's register -> resolve -> consume cycle for its plan is complete
CycleComplete == resolved # {} /\ pc # "awaiting"

NewEvents == SubSeq(events', Len(events) + 1, Len(events'))

\* a model or tool event of the Phase 1 stream
Phase1StreamEvent(e) ==
    /\ e.at = 0
    /\ e.type \in {"llm_start", "llm_end", "tool_start", "tool_end"}

\* plan_create has ended in Phase 1
PlanCreateEnded ==
    \E i \in DOMAIN events : events[i] = Yield("tool_end", "plan_create", 0)

\* C34 (as claimed): once plan_create has ended with a plan, Phase 1 is left
\* for the approval wait or the step loop, is never entered again, and no
\* further model or tool event of Phase 1 is yielded; when plan_create has
\* ended with no plan the runner stays in Phase 1, and a run that ends
\* without a plan ends with done and has marked no step running.
C34_Claim ==
    /\ [][ (pc = "phase1" /\ steps' # <<>>) =>
               /\ pc' \in {"awaiting", "loop"}
               /\ NewEvents[1] = Yield("tool_end", "plan_create", 0) ]_vars
    /\ [][ pc # "phase1" =>
               /\ pc' # "phase1"
               /\ \A i \in DOMAIN NewEvents : ~Phase1StreamEvent(NewEvents[i]) ]_vars
    /\ []( (PlanCreateEnded /\ PlanFree) =>
               /\ RunningCount = 0
               /\ pc \in {"phase1", "finished"}
               /\ pc = "finished" => events[Len(events)].type = "done" )

\* ------------------------------------------------------------------ C35
\* the replanner's decision names no branch of the loop: a revise without
\* steps, or an action that is none of continue, revise, finish
Unusable(decision) ==
    \/ decision.action = "revise" /\ decision.revised_steps = <<>>
    \/ decision.action \notin
           {"raise", "not_invoked", "continue", "revise", "finish"}

\* C35: a decision of the replanner that is a revise with no revised steps,
\* or whose action is none of continue, revise, finish, is acted on as a
\* continue: no plan_revised event, the steps and the index as they were,
\* and the loop goes on to the next step (while the step ceiling allows).
C35_UnusableDecisionIsContinue ==
    /\ [][ (evaluations' = evaluations + 1 /\ Unusable(last_llm')) =>
              /\ ContinueEffect
              /\ revisions' = revisions
              /\ step_index' < Len(steps') ]_vars
    /\ [][ (pc = "loop" /\ Unusable(last_llm) /\ pc' # "loop"
              /\ step_index < Len(steps) /\ step_index < plan_max_steps) =>
              /\ pc' = "sub"
              /\ events' = MarkRunning(events, steps[step_index + 1]) ]_vars

\* a revise without steps came back and the next step was started
C35_Witness ==
    /\ last_llm.action = "revise"
    /\ last_llm.revised_steps = <<>>
    /\ Count("plan_revised") = 0
    /\ pc = "sub"
    /\ step_index >= 1

\* ------------------------------------------------------------------ C36
\* the number of events of a type with call id c among the first k events
CallEvents(type, c, k) ==
    Cardinality({i \in 1..k : events[i].type = type /\ events[i].content = c})

CallIds == {call_id(r) : r \in StreamRunIds}

\* C36: every llm_end event is preceded by an llm_start event with the same
\* call id, up to any point of the stream a call id has no more llm_end than
\* llm_start events, and a llm_end is yielded only for a model-end signal
\* whose run id has a recorded start, which that signal removes.
C36_EndMatchesStart ==
    /\ [](\A j \in DOMAIN events :
            events[j].type = "llm_end" =>
                \E i \in 1..(j - 1) :
                    /\ events[i].type = "llm_start"
                    /\ events[i].content = events[j].content)
    /\ [](\A c \in CallIds, k \in DOMAIN events :
            CallEvents("llm_end", c, k) <= CallEvents("llm_start", c, k))
    /\ [][ \A i \in DOMAIN NewEvents :
              NewEvents[i].type = "llm_end" =>
                  \E r \in debug_tracking :
                      /\ call_id(r) = NewEvents[i].content
                      /\ debug_tracking' = debug_tracking \ {r} ]_vars

\* a second model end for a run id that has started and ended: the stream
\* holds one llm_start and one llm_end of the call and nothing is recorded
C36_Witness ==
    /\ signals = 3
    /\ debug_tracking = {}
    /\ Len(events) = 2
    /\ events[1].type = "llm_start"
    /\ events[2].type = "llm_end"

\* ------------------------------------------------------------------ C37
\* the n keys of a thread with the smallest checkpoint ids
Oldest(keys, n) ==
    {k \in keys : Cardinality({j \in keys : j[3] < k[3]}) < n}

IsCacheOp(op) == mc_ret'.n = mc_ret.n + 1 /\ mc_ret'.op = op

\* the least recently used of the cached keys: the one whose last use (a set,
\* or a get that returned its value) is the earliest
LeastRecentlyUsed ==
    LET first == CHOOSE i \in DOMAIN recency :
                     /\ recency[i] \in CachedKeys(_cache)
                     /\ \A j \in 1..(i - 1) : recency[j] \notin CachedKeys(_cache)
    IN  recency[first]

\* C38: the cache never holds more than max_size entries; a set of a new key
\* at capacity evicts exactly the least recently used entry, a get of a live
\* key and a set of an existing key counting as uses; a set of an existing
\* key, or of a new key below capacity, evicts nothing.
C38_LruBounded ==
    /\ [](Len(_cache) <= max_size)
    /\ [][ IsCacheOp("set") =>
             LET key == mc_ret'.key
                 before == CachedKeys(_cache)
                 after == CachedKeys(_cache')
             IN  /\ key \in after
                 /\ before \ after = mc_ret'.evicted
                 /\ IF key \in before
                    THEN after = before
                    ELSE IF Len(_cache) = max_size
                    THEN /\ mc_ret'.evicted = {LeastRecentlyUsed}
                         /\ after = (before \ {LeastRecentlyUsed}) \cup {key}
                    ELSE after = before \cup {key} ]_vars

\* k1 was set before k2 and used again after it; the set of k3 on the full
\* cache has evicted k2 and kept k1
C38_Witness ==
    /\ max_size = 2
    /\ mc_ret.op = "set"
    /\ mc_ret.key = "k3"
    /\ mc_ret.evicted = {"k2"}
    /\ mc_ret.n = 4
    /\ recency = <<"k2", "k1", "k3">>
    /\ CachedKeys(_cache) = {"k1", "k3"}

\* ------------------------------------------------------------------ C39
\* no SessionManager operation is under way
Quiescent == \A w \in Writers : At(w, "idle")

FileMessages ==
    IF session_file \in {Missing, Partial} THEN {}
    ELSE {session_file.messages[i] : i \in DOMAIN session_file.messages}

\* C39 (as claimed): whatever the interleaving of save_message, set_title,
\* save_plan, save_debug_calls, create_session and delete_session on the
\* session, once the operations have returned the file holds every message
\* appended by a completed save_message (the session not having been
\* deleted, and the process not having died).
C39_Claim ==
    (Quiescent /\ ~fs_log.deleted /\ ~fs_log.crashed) => saved \subseteq FileMessages

\* ------------------------------------------------------------------ C40
\* a complete session file: neither missing nor written in part
Complete(file) == file # Missing /\ file # Partial

\* C40 (as claimed): once the session file has been written (and the session
\* not deleted), the path holds a complete file in every state, a process
\* that died inside _write_session_data leaves a complete file, and a reader
\* without the lock finds a complete file.
C40_Claim ==
    /\ (fs_log.written /\ ~fs_log.deleted) => Complete(session_file)
    /\ (fs_read # NoRead /\ fs_read.written /\ ~fs_read.deleted) =>
           Complete(fs_read.found)

====
